---------------------------- MODULE Spec2Model ----------------------------
(***************************************************************************)
(* Model of src/queryOptimizer.js: the SQL tokenizer, the recursive        *)
(* descent Parser, and the QueryOptimizer pipeline (rewrite, join order    *)
(* DP, predicate pushdown, index selection, plan generation, costing).     *)
(*                                                                         *)
(* JavaScript values are modelled as follows.                              *)
(*   - a string is a sequence of one-character strings;                    *)
(*   - a number is a record [t |-> "number", n, d]: the rational n/d in    *)
(*     lowest terms with d > 0, or d = 0 for the non-finite values         *)
(*     (n = 1: Infinity, n = -1: -Infinity, n = 0: NaN).  Negative zero    *)
(*     is not distinguished from zero;                                     *)
(*   - null is the record Null, undefined the record Undefined;            *)
(*   - an exception is a record with field kind ("Error", "TypeError",     *)
(*     "ReferenceError") that the callers propagate.                       *)
(***************************************************************************)
EXTENDS Integers, Sequences, FiniteSets, TLC

VARIABLES
    sql,            \* tokenize: the argument
    remaining,      \* tokenize: local `remaining`
    position,       \* tokenize: local `position`
    tokens,         \* tokenize: local `tokens` (the returned array)
    pc,             \* position of the caller in tokenize -> parse -> optimize
    parsed,         \* outcome of new Parser(tokens).parse()
    sqlResult,      \* outcome of parseSQL(sql)
    statistics,     \* QueryOptimizer.statistics (table name -> stats)
    indexes,        \* QueryOptimizer.indexes (index name -> index)
    ast,            \* the AST object flowing through optimize
    selected,       \* optimize: local `indexes` (selectIndexes result)
    plan,           \* optimize: local `plan`
    cost,           \* optimize: local `cost`
    dp,             \* optimizeJoinOrder: local `dp` (kept for inspection)
    given,          \* the object the caller passed to optimize, as the
                    \* caller's reference shows it
    again,          \* outcome of optimize(result.ast), a second call
    caches,         \* QueryOptimizer.cache, executionPlans, histograms and
                    \* correlations
    call,           \* a method called on the optimizer directly: its name
                    \* and its arguments
    returned        \* what that call returned

vars == <<sql, remaining, position, tokens, pc, parsed, sqlResult,
          statistics, indexes, ast, selected, plan, cost, dp, given, again, caches,
          call, returned>>

-----------------------------------------------------------------------------
(* JavaScript values *)

Null == [type |-> "null"]
Undefined == [type |-> "undefined"]

Abs(x) == IF x < 0 THEN -x ELSE x
Sign(x) == IF x < 0 THEN -1 ELSE IF x > 0 THEN 1 ELSE 0

RECURSIVE Gcd(_, _)
Gcd(a, b) == IF b = 0 THEN a ELSE Gcd(b, a % b)

\* The number n/d, normalised.
Num(n, d) ==
    IF d = 0 THEN [t |-> "number", n |-> Sign(n), d |-> 0]
    ELSE LET g == Gcd(Abs(n), Abs(d))
         IN  [t |-> "number", n |-> Sign(d) * (n \div g), d |-> Abs(d) \div g]

IntNum(n) == Num(n, 1)
Infinity == Num(1, 0)
NegInfinity == Num(-1, 0)
NaN == Num(0, 0)
Str(s) == [t |-> "string", s |-> s]

IsNaN(a) == a.d = 0 /\ a.n = 0
IsFinite(a) == a.d > 0

NumAdd(a, b) ==
    IF IsNaN(a) \/ IsNaN(b) THEN NaN
    ELSE IF a.d = 0 /\ b.d = 0 THEN (IF a.n = b.n THEN a ELSE NaN)
    ELSE IF a.d = 0 THEN a
    ELSE IF b.d = 0 THEN b
    ELSE Num(a.n * b.d + b.n * a.d, a.d * b.d)

NumNeg(a) == [t |-> "number", n |-> -a.n, d |-> a.d]
NumSub(a, b) == NumAdd(a, NumNeg(b))

NumMul(a, b) ==
    IF a.d = 0 \/ b.d = 0
    THEN [t |-> "number", n |-> Sign(a.n) * Sign(b.n), d |-> 0]
    ELSE Num(a.n * b.n, a.d * b.d)

NumDiv(a, b) ==
    IF IsNaN(a) \/ IsNaN(b) THEN NaN
    ELSE IF a.d = 0 /\ b.d = 0 THEN NaN
    ELSE IF a.d = 0 THEN [t |-> "number", n |-> a.n * (IF b.n < 0 THEN -1 ELSE 1), d |-> 0]
    ELSE IF b.d = 0 THEN IntNum(0)
    ELSE IF b.n = 0 THEN [t |-> "number", n |-> Sign(a.n), d |-> 0]
    ELSE Num(a.n * b.d, a.d * b.n)

\* a < b on numbers (false when either is NaN).
NumLt(a, b) ==
    IF IsNaN(a) \/ IsNaN(b) THEN FALSE
    ELSE IF a.d = 0 /\ b.d = 0 THEN a.n < b.n
    ELSE IF a.d = 0 THEN a.n < 0
    ELSE IF b.d = 0 THEN b.n > 0
    ELSE a.n * b.d < b.n * a.d

NumLe(a, b) == NumLt(a, b) \/ (~IsNaN(a) /\ a = b)

-----------------------------------------------------------------------------
(* Characters *)

LowerLetters == <<"a","b","c","d","e","f","g","h","i","j","k","l","m",
                  "n","o","p","q","r","s","t","u","v","w","x","y","z">>
UpperLetters == <<"A","B","C","D","E","F","G","H","I","J","K","L","M",
                  "N","O","P","Q","R","S","T","U","V","W","X","Y","Z">>
DigitChars == <<"0","1","2","3","4","5","6","7","8","9">>

Range(s) == {s[i] : i \in DOMAIN s}
Letters == Range(LowerLetters) \cup Range(UpperLetters)
Digits == Range(DigitChars)
WhitespaceChars == {" ", "\t", "\n", "\r", "\f"}
IdStartChars == Letters \cup {"_"}
IdChars == IdStartChars \cup Digits

DigitValue(c) == (CHOOSE i \in DOMAIN DigitChars : DigitChars[i] = c) - 1

\* String.prototype.toUpperCase on the ASCII characters of an identifier.
UpperChar(c) ==
    IF \E i \in DOMAIN LowerLetters : LowerLetters[i] = c
    THEN UpperLetters[CHOOSE i \in DOMAIN LowerLetters : LowerLetters[i] = c]
    ELSE c
toUpperCase(s) == [i \in DOMAIN s |-> UpperChar(s[i])]

\* Length of the longest prefix of s made of characters of C.
SpanLen(s, C) ==
    IF \E i \in DOMAIN s : s[i] \notin C
    THEN (CHOOSE i \in DOMAIN s : s[i] \notin C /\ \A j \in 1..(i-1) : s[j] \in C) - 1
    ELSE Len(s)

Slice(s, k) == SubSeq(s, k + 1, Len(s))         \* s.slice(k)
Take(s, k) == SubSeq(s, 1, k)
StartsWith(s, p) == Len(s) >= Len(p) /\ Take(s, Len(p)) = p

RECURSIVE DigitsValue(_)
DigitsValue(s) ==
    IF s = <<>> THEN 0
    ELSE 10 * DigitsValue(Take(s, Len(s) - 1)) + DigitValue(s[Len(s)])

RECURSIVE Pow10(_)
Pow10(k) == IF k = 0 THEN 1 ELSE 10 * Pow10(k - 1)

-----------------------------------------------------------------------------
(* tokenize *)

keywords == {
    <<"S","E","L","E","C","T">>,
    <<"F","R","O","M">>,
    <<"W","H","E","R","E">>,
    <<"J","O","I","N">>,
    <<"L","E","F","T">>,
    <<"R","I","G","H","T">>,
    <<"I","N","N","E","R">>,
    <<"O","U","T","E","R">>,
    <<"O","N">>,
    <<"A","N","D">>,
    <<"O","R">>,
    <<"N","O","T">>,
    <<"I","N">>,
    <<"E","X","I","S","T","S">>,
    <<"B","E","T","W","E","E","N">>,
    <<"L","I","K","E">>,
    <<"G","R","O","U","P">>,
    <<"B","Y">>,
    <<"H","A","V","I","N","G">>,
    <<"O","R","D","E","R">>,
    <<"L","I","M","I","T">>,
    <<"O","F","F","S","E","T">>,
    <<"U","N","I","O","N">>,
    <<"I","N","T","E","R","S","E","C","T">>,
    <<"E","X","C","E","P","T">>,
    <<"A","S">>,
    <<"D","I","S","T","I","N","C","T">>,
    <<"A","L","L">>,
    <<"A","N","Y">>,
    <<"S","O","M","E">> }

\* `operators` without its alternative for the asterisk
operatorsWithoutStar == <<
    <<">","=">>,
    <<"<","=">>,
    <<"<",">">>,
    <<"!","=">>,
    <<"=">>,
    <<"<">>,
    <<">">>,
    <<"+">>,
    <<"-">>,
    <<"/">>,
    <<"%">>,
    <<"|","|">>,
    <<"&","&">> >>

\* The alternatives of the `operators` regular expression, in its order.
operators == <<
    <<">","=">>,
    <<"<","=">>,
    <<"<",">">>,
    <<"!","=">>,
    <<"=">>,
    <<"<">>,
    <<">">>,
    <<"+">>,
    <<"-">>,
    <<"*">>,
    <<"/">>,
    <<"%">>,
    <<"|","|">>,
    <<"&","&">> >>

\* Length matched by /^\s+/ at the head of s (0: no match).
whitespaceMatch(s) == SpanLen(s, WhitespaceChars)

\* stringMatch that lets a string literal without its closing quote run to
\* the end of the input
stringMatchUnclosed(s) ==
    IF s # <<>> /\ s[1] = "'"
    THEN IF \E j \in 2..Len(s) : s[j] = "'"
         THEN CHOOSE j \in 2..Len(s) : s[j] = "'" /\ \A k \in 2..(j-1) : s[k] # "'"
         ELSE Len(s)
    ELSE 0

\* Length matched by /^'([^']*)'/ at the head of s (0: no match).
stringMatch(s) ==
    IF s # <<>> /\ s[1] = "'" /\ \E j \in 2..Len(s) : s[j] = "'"
    THEN CHOOSE j \in 2..Len(s) : s[j] = "'" /\ \A k \in 2..(j-1) : s[k] # "'"
    ELSE 0

\* Length matched by /^\d+(\.\d+)?/ at the head of s (0: no match).
numberMatch(s) ==
    LET k == SpanLen(s, Digits)
    IN  IF k = 0 THEN 0
        ELSE IF Len(s) >= k + 2 /\ s[k + 1] = "." /\ s[k + 2] \in Digits
             THEN k + 1 + SpanLen(Slice(s, k + 1), Digits)
             ELSE k

\* Length matched by the `operators` regular expression (first alternative
\* that matches, 0: no match).
operatorMatch(s) ==
    IF \E i \in DOMAIN operators : StartsWith(s, operators[i])
    THEN Len(operators[CHOOSE i \in DOMAIN operators :
                 /\ StartsWith(s, operators[i])
                 /\ \A j \in 1..(i-1) : ~StartsWith(s, operators[j])])
    ELSE 0

\* Length matched by /^[a-zA-Z_][a-zA-Z0-9_]*/ at the head of s (0: no match).
identifierMatch(s) ==
    IF s # <<>> /\ s[1] \in IdStartChars
    THEN 1 + SpanLen(Slice(s, 1), IdChars)
    ELSE 0

\* parseFloat of a text matched by numberMatch, as an exact rational.
parseFloat(text) ==
    LET k == SpanLen(text, Digits)
        frac == IF k < Len(text) THEN Slice(text, k + 1) ELSE <<>>
    IN  Num(DigitsValue(Take(text, k)) * Pow10(Len(frac)) + DigitsValue(frac),
            Pow10(Len(frac)))

Token(type, value, pos) == [type |-> type, value |-> value, position |-> pos]

\* One iteration of the while loop of tokenize on `remaining` = s at
\* `position` = pos: the number of characters consumed and the tokens pushed.
TokenizeIteration(s, pos) ==
    IF whitespaceMatch(s) > 0
    THEN [len |-> whitespaceMatch(s), push |-> <<>>]
    ELSE IF stringMatch(s) > 0
    THEN [len |-> stringMatch(s),
          push |-> <<Token("STRING", Str(SubSeq(s, 2, stringMatch(s) - 1)), pos)>>]
    ELSE IF numberMatch(s) > 0
    THEN [len |-> numberMatch(s),
          push |-> <<Token("NUMBER", parseFloat(Take(s, numberMatch(s))), pos)>>]
    ELSE IF operatorMatch(s) > 0
    THEN [len |-> operatorMatch(s),
          push |-> <<Token("OPERATOR", Str(Take(s, operatorMatch(s))), pos)>>]
    ELSE IF identifierMatch(s) > 0
    THEN LET value == Take(s, identifierMatch(s))
             upperValue == toUpperCase(value)
         IN  [len |-> Len(value),
              push |-> <<Token(IF upperValue \in keywords THEN "KEYWORD" ELSE "IDENTIFIER",
                               Str(IF upperValue \in keywords THEN upperValue ELSE value),
                               pos)>>]
    ELSE [len |-> 1, push |-> <<Token("SPECIAL", Str(<<s[1]>>), pos)>>]

RECURSIVE tokenizeFrom(_, _)
\* the tokens pushed after iteration `it` on s at pos
tokenizeRest(s, pos, it) == it.push \o tokenizeFrom(Slice(s, it.len), pos + it.len)

\* the tokens the while loop pushes from `remaining` = s at `position` = pos
tokenizeFrom(s, pos) ==
    IF s = <<>> THEN <<>> ELSE tokenizeRest(s, pos, TokenizeIteration(s, pos))

tokenize(s) == tokenizeFrom(s, 0)


-----------------------------------------------------------------------------
(* Parser.  A parser method is an operator of the token array and of       *)
(* this.position (0-based); it yields [kind |-> "ok", node, pos] with the  *)
(* new this.position, or the exception it throws.  In the AST a null       *)
(* alias is the empty string and a null groupBy/orderBy the empty array    *)
(* (the parser builds neither an empty identifier nor an empty list).      *)

Ok(node, p) == [kind |-> "ok", node |-> node, pos |-> p]
\* throw new Error(`${text} ${expected}, got ${got}`)
ThrowError(text, expected, got) ==
    [kind |-> "Error", text |-> text, expected |-> expected, got |-> got]
\* reading a property of undefined
TypeError == [kind |-> "TypeError"]
\* reading an identifier that no scope declares
ReferenceError(name) == [kind |-> "ReferenceError", name |-> name]

current(toks, p) == IF p + 1 \in DOMAIN toks THEN toks[p + 1] ELSE Undefined
peek(toks, p) == IF p + 2 \in DOMAIN toks THEN toks[p + 2] ELSE Undefined

\* this.current()?.value
currentValue(toks, p) ==
    IF current(toks, p) = Undefined THEN Undefined ELSE current(toks, p).value

\* match(expected): TRUE when it advances.
match(toks, p, expected) ==
    current(toks, p) # Undefined /\ current(toks, p).value = Str(expected)

matchAny(toks, p, expected) ==
    current(toks, p) # Undefined /\ \E e \in expected : current(toks, p).value = Str(e)

expect(toks, p, expected) ==
    IF match(toks, p, expected) THEN Ok(Null, p + 1)
    ELSE ThrowError("Expected", expected, currentValue(toks, p))

expectIdentifier(toks, p) ==
    IF current(toks, p) = Undefined THEN TypeError
    ELSE IF current(toks, p).type # "IDENTIFIER"
    THEN ThrowError("Expected", <<"i","d","e","n","t","i","f","i","e","r">>, currentValue(toks, p))
    ELSE Ok(current(toks, p).value.s, p + 1)

parseNumber(toks, p) ==
    IF current(toks, p) = Undefined THEN TypeError
    ELSE IF current(toks, p).type # "NUMBER"
    THEN ThrowError("Expected", <<"n","u","m","b","e","r">>, currentValue(toks, p))
    ELSE Ok(current(toks, p).value, p + 1)

BinaryOp(operator, left, right) ==
    [type |-> "BINARY_OP", operator |-> operator, left |-> left, right |-> right]

\* A call whose result r is used by the rest K of the method: an exception
\* propagates, a normal return continues.
Bind(r, K(_)) == IF r.kind # "ok" THEN r ELSE K(r)

RECURSIVE parseExpression(_, _), parseOrLoop(_, _, _), parseAndExpression(_, _),
          parseAndLoop(_, _, _), parseComparisonExpression(_, _),
          parsePrimaryExpression(_, _), parseArguments(_, _, _),
          parseColumnParts(_, _, _)

parseOrExpression(toks, p) ==
    Bind(parseAndExpression(toks, p), LAMBDA l : parseOrLoop(toks, l.pos, l.node))

\* the while (this.match('OR')) loop, `left` so far
parseOrLoop(toks, p, left) ==
    IF match(toks, p, <<"O","R">>)
    THEN Bind(parseAndExpression(toks, p + 1),
              LAMBDA r : parseOrLoop(toks, r.pos, BinaryOp(<<"O","R">>, left, r.node)))
    ELSE Ok(left, p)

parseAndExpression(toks, p) ==
    Bind(parseComparisonExpression(toks, p), LAMBDA l : parseAndLoop(toks, l.pos, l.node))

\* the while (this.match('AND')) loop, `left` so far
parseAndLoop(toks, p, left) ==
    IF match(toks, p, <<"A","N","D">>)
    THEN Bind(parseComparisonExpression(toks, p + 1),
              LAMBDA r : parseAndLoop(toks, r.pos, BinaryOp(<<"A","N","D">>, left, r.node)))
    ELSE Ok(left, p)

parseComparisonExpression(toks, p) ==
    Bind(parsePrimaryExpression(toks, p), LAMBDA l :
        IF current(toks, l.pos) = Undefined THEN TypeError
        ELSE IF current(toks, l.pos).type = "OPERATOR"
        THEN Bind(parsePrimaryExpression(toks, l.pos + 1), LAMBDA r :
                 Ok(BinaryOp(current(toks, l.pos).value.s, l.node, r.node), r.pos))
        ELSE l)

\* do { args.push(parseExpression()) } while (match(','))
parseArguments(toks, p, args) ==
    Bind(parseExpression(toks, p), LAMBDA a :
        IF match(toks, a.pos, <<",">>)
        THEN parseArguments(toks, a.pos + 1, Append(args, a.node))
        ELSE Ok(Append(args, a.node), a.pos))

\* while (match('.')) parts.push(expectIdentifier())
parseColumnParts(toks, p, parts) ==
    IF match(toks, p, <<".">>)
    THEN Bind(expectIdentifier(toks, p + 1),
              LAMBDA i : parseColumnParts(toks, i.pos, Append(parts, i.node)))
    ELSE Ok([type |-> "COLUMN", parts |-> parts], p)

\* the function call branch of parsePrimaryExpression, after expectIdentifier
\* and expect('(') (which succeed there) at position p
parseCall(toks, p, funcName) ==
    IF match(toks, p, <<")">>)
    THEN Ok([type |-> "FUNCTION", name |-> funcName, arguments |-> <<>>], p + 1)
    ELSE Bind(parseArguments(toks, p, <<>>), LAMBDA a :
         Bind(expect(toks, a.pos, <<")">>), LAMBDA c :
             Ok([type |-> "FUNCTION", name |-> funcName, arguments |-> a.node], c.pos)))

parsePrimaryExpression(toks, p) ==
    IF match(toks, p, <<"(">>)
    THEN Bind(parseExpression(toks, p + 1), LAMBDA e :
         Bind(expect(toks, e.pos, <<")">>), LAMBDA c : Ok(e.node, c.pos)))
    ELSE IF current(toks, p) = Undefined THEN TypeError
    ELSE IF /\ current(toks, p).type = "IDENTIFIER"
            /\ peek(toks, p) # Undefined
            /\ peek(toks, p).value = Str(<<"(">>)
    THEN parseCall(toks, p + 2, current(toks, p).value.s)
    ELSE IF current(toks, p).type = "IDENTIFIER"
    THEN parseColumnParts(toks, p + 1, <<current(toks, p).value.s>>)
    ELSE IF current(toks, p).type = "NUMBER"
    THEN Ok([type |-> "LITERAL", dataType |-> "NUMBER", value |-> current(toks, p).value],
            p + 1)
    ELSE IF current(toks, p).type = "STRING"
    THEN Ok([type |-> "LITERAL", dataType |-> "STRING", value |-> current(toks, p).value],
            p + 1)
    ELSE ThrowError("Unexpected token", <<>>, current(toks, p).value)

parseExpression(toks, p) == parseOrExpression(toks, p)

parseWhereClause(toks, p) == parseExpression(toks, p)
parseHavingClause(toks, p) == parseExpression(toks, p)

RECURSIVE parseSelectListLoop(_, _, _)
\* the do ... while (match(',')) loop of parseSelectList, `columns` so far
parseSelectListLoop(toks, p, columns) ==
    Bind(IF match(toks, p, <<"*">>) THEN Ok([type |-> "WILDCARD"], p + 1)
         ELSE parseExpression(toks, p),
         LAMBDA c :
            IF match(toks, c.pos, <<",">>)
            THEN parseSelectListLoop(toks, c.pos + 1, Append(columns, c.node))
            ELSE Ok(Append(columns, c.node), c.pos))

parseSelectList(toks, p) == parseSelectListLoop(toks, p, <<>>)

\* the alias part of parseTableReference, after the name read up to p
parseAlias(toks, p, name) ==
    IF match(toks, p, <<"A","S">>)
    THEN Bind(expectIdentifier(toks, p + 1), LAMBDA alias :
             Ok([type |-> "TABLE", name |-> name, alias |-> alias.node], alias.pos))
    ELSE IF current(toks, p) = Undefined THEN TypeError
    ELSE IF current(toks, p).type = "IDENTIFIER"
    THEN Ok([type |-> "TABLE", name |-> name, alias |-> current(toks, p).value.s], p + 1)
    ELSE Ok([type |-> "TABLE", name |-> name, alias |-> <<>>], p)

parseTableReference(toks, p) ==
    Bind(expectIdentifier(toks, p), LAMBDA name : parseAlias(toks, name.pos, name.node))

JoinKeywords == {<<"J","O","I","N">>, <<"L","E","F","T">>, <<"R","I","G","H","T">>, <<"I","N","N","E","R">>, <<"O","U","T","E","R">>}

\* let condition = null; if (this.match('ON')) condition = this.parseExpression()
parseCondition(toks, p) ==
    IF match(toks, p, <<"O","N">>) THEN parseExpression(toks, p + 1) ELSE Ok(Null, p)

RECURSIVE parseJoins(_, _, _)
\* the while (matchAny([...])) loop of parseFromClause; `left` is the entry
\* it pops from `tables`
parseJoins(toks, p, left) ==
    IF matchAny(toks, p, JoinKeywords)
    THEN Bind(parseTableReference(toks, IF match(toks, p + 1, <<"J","O","I","N">>) THEN p + 2 ELSE p + 1),
              LAMBDA rightTable :
         Bind(parseCondition(toks, rightTable.pos), LAMBDA condition :
             parseJoins(toks, condition.pos,
                        [type |-> "JOIN", joinType |-> current(toks, p).value.s,
                         left |-> left, right |-> rightTable.node,
                         condition |-> condition.node])))
    ELSE Ok(left, p)

RECURSIVE parseFromLoop(_, _, _)
\* the do ... while (match(',')) loop of parseFromClause, `tables` so far
parseFromLoop(toks, p, tables) ==
    Bind(parseTableReference(toks, p), LAMBDA table :
    Bind(parseJoins(toks, table.pos, table.node), LAMBDA j :
        IF match(toks, j.pos, <<",">>)
        THEN parseFromLoop(toks, j.pos + 1, Append(tables, j.node))
        ELSE Ok(Append(tables, j.node), j.pos)))

parseFromClause(toks, p) == parseFromLoop(toks, p, <<>>)

RECURSIVE parseGroupByLoop(_, _, _)
parseGroupByLoop(toks, p, expressions) ==
    Bind(parseExpression(toks, p), LAMBDA e :
        IF match(toks, e.pos, <<",">>)
        THEN parseGroupByLoop(toks, e.pos + 1, Append(expressions, e.node))
        ELSE Ok(Append(expressions, e.node), e.pos))

parseGroupByClause(toks, p) == parseGroupByLoop(toks, p, <<>>)

\* the item pushed by parseOrderByClause for an expression read up to p, and
\* the position after its optional ASC or DESC
orderItem(toks, p, expression) ==
    IF match(toks, p, <<"A","S","C">>) \/ match(toks, p, <<"D","E","S","C">>)
    THEN Ok([expression |-> expression, direction |-> current(toks, p).value.s], p + 1)
    ELSE Ok([expression |-> expression, direction |-> <<"A","S","C">>], p)

RECURSIVE parseOrderByLoop(_, _, _)
parseOrderByLoop(toks, p, items) ==
    Bind(parseExpression(toks, p), LAMBDA e :
    Bind(orderItem(toks, e.pos, e.node), LAMBDA item :
        IF match(toks, item.pos, <<",">>)
        THEN parseOrderByLoop(toks, item.pos + 1, Append(items, item.node))
        ELSE Ok(Append(items, item.node), item.pos)))

parseOrderByClause(toks, p) == parseOrderByLoop(toks, p, <<>>)

\* The optional clauses of parseSelectStatement: what the local is set to,
\* and this.position after the clause.
whereClause(toks, p) ==
    IF match(toks, p, <<"W","H","E","R","E">>) THEN parseWhereClause(toks, p + 1) ELSE Ok(Null, p)
groupByClause(toks, p) ==
    IF match(toks, p, <<"G","R","O","U","P">>)
    THEN Bind(expect(toks, p + 1, <<"B","Y">>), LAMBDA by : parseGroupByClause(toks, by.pos))
    ELSE Ok(<<>>, p)
havingClause(toks, p) ==
    IF match(toks, p, <<"H","A","V","I","N","G">>) THEN parseHavingClause(toks, p + 1) ELSE Ok(Null, p)
orderByClause(toks, p) ==
    IF match(toks, p, <<"O","R","D","E","R">>)
    THEN Bind(expect(toks, p + 1, <<"B","Y">>), LAMBDA by : parseOrderByClause(toks, by.pos))
    ELSE Ok(<<>>, p)
limitClause(toks, p) ==
    IF match(toks, p, <<"L","I","M","I","T">>) THEN parseNumber(toks, p + 1) ELSE Ok(Null, p)

parseSelectStatement(toks, p) ==
    Bind(expect(toks, p, <<"S","E","L","E","C","T">>), LAMBDA s :
    Bind(parseSelectList(toks, s.pos), LAMBDA columns :
    Bind(expect(toks, columns.pos, <<"F","R","O","M">>), LAMBDA f :
    Bind(parseFromClause(toks, f.pos), LAMBDA from :
    Bind(whereClause(toks, from.pos), LAMBDA where :
    Bind(groupByClause(toks, where.pos), LAMBDA groupBy :
    Bind(havingClause(toks, groupBy.pos), LAMBDA having :
    Bind(orderByClause(toks, having.pos), LAMBDA orderBy :
    Bind(limitClause(toks, orderBy.pos), LAMBDA limit :
        Ok([type |-> "SELECT", columns |-> columns.node, from |-> from.node,
            where |-> where.node, groupBy |-> groupBy.node, having |-> having.node,
            orderBy |-> orderBy.node, limit |-> limit.node], limit.pos))))))))))

\* new Parser(tokens).parse()
parse(toks) == parseSelectStatement(toks, 0)

-----------------------------------------------------------------------------
(* Conversions between JavaScript strings and numbers, as `+ - * /` apply  *)
(* them to the values of two Literals.                                     *)

MaxFractionDigits == 16

RECURSIVE NatToString(_)
NatToString(k) ==
    IF k < 10 THEN <<DigitChars[k + 1]>>
    ELSE NatToString(k \div 10) \o <<DigitChars[(k % 10) + 1]>>

RECURSIVE FractionDigits(_, _, _)
FractionDigits(r, d, k) ==
    IF r = 0 \/ k = 0 THEN <<>>
    ELSE <<DigitChars[((r * 10) \div d) + 1]>> \o FractionDigits((r * 10) % d, d, k - 1)

\* String(a) for a number a.  Exact for integers and for decimals of at most
\* MaxFractionDigits digits; exponent notation (magnitudes >= 1e21 or < 1e-6)
\* is beyond the numbers the model builds.
NumberToString(a) ==
    IF IsNaN(a) THEN <<"N","a","N">>
    ELSE IF a.d = 0 THEN (IF a.n > 0 THEN <<"I","n","f","i","n","i","t","y">> ELSE <<"-","I","n","f","i","n","i","t","y">>)
    ELSE (IF a.n < 0 THEN <<"-">> ELSE <<>>)
         \o NatToString(Abs(a.n) \div a.d)
         \o (IF Abs(a.n) % a.d = 0 THEN <<>>
             ELSE <<".">> \o FractionDigits(Abs(a.n) % a.d, a.d, MaxFractionDigits))

Reverse(s) == [i \in DOMAIN s |-> s[Len(s) + 1 - i]]

\* String.prototype.trim on the whitespace of the model
trim(s) ==
    SubSeq(s, SpanLen(s, WhitespaceChars) + 1,
           Len(s) - SpanLen(Reverse(s), WhitespaceChars))

\* The value of digits [. digits] with k leading digits, NaN when body is
\* not of that form.
decimalValue(body, k, frac) ==
    IF /\ k = Len(body) \/ (body[k + 1] = "." /\ SpanLen(frac, Digits) = Len(frac))
       /\ k > 0 \/ frac # <<>>
    THEN Num(DigitsValue(Take(body, k)) * Pow10(Len(frac)) + DigitsValue(frac),
             Pow10(Len(frac)))
    ELSE NaN

unsignedValue(body) ==
    IF body = <<"I","n","f","i","n","i","t","y">> THEN Infinity
    ELSE IF body = <<>> THEN NaN
    ELSE decimalValue(body, SpanLen(body, Digits), Slice(body, SpanLen(body, Digits) + 1))

trimmedValue(t) ==
    IF t = <<>> THEN IntNum(0)
    ELSE IF t[1] = "-" THEN NumNeg(unsignedValue(Slice(t, 1)))
    ELSE IF t[1] = "+" THEN unsignedValue(Slice(t, 1))
    ELSE unsignedValue(t)

\* Number(s) for a string s: whitespace is trimmed, the empty string is 0, a
\* signed decimal literal or Infinity is its value, anything else NaN.
\* Exponents and radix prefixes are beyond the strings the model builds.
StringToNumber(s) == trimmedValue(trim(s))

JsToNumber(v) == IF v.t = "number" THEN v ELSE StringToNumber(v.s)
JsToString(v) == IF v.t = "string" THEN v.s ELSE NumberToString(v)

\* leftVal + rightVal
JsPlus(l, r) ==
    IF l.t = "string" \/ r.t = "string" THEN Str(JsToString(l) \o JsToString(r))
    ELSE NumAdd(l, r)

-----------------------------------------------------------------------------
(* rewriteQuery *)

Literal(value) == [type |-> "LITERAL", value |-> value]

\* evaluateBinaryOp without its case for the division
evaluateBinaryOpNoDivide(operator, left, right) ==
    IF operator = <<"+">> THEN Literal(JsPlus(left.value, right.value))
    ELSE IF operator = <<"-">>
    THEN Literal(NumSub(JsToNumber(left.value), JsToNumber(right.value)))
    ELSE IF operator = <<"*">>
    THEN Literal(NumMul(JsToNumber(left.value), JsToNumber(right.value)))
    ELSE BinaryOp(operator, left, right)

evaluateBinaryOp(operator, left, right) ==
    IF operator = <<"+">> THEN Literal(JsPlus(left.value, right.value))
    ELSE IF operator = <<"-">> THEN Literal(NumSub(JsToNumber(left.value), JsToNumber(right.value)))
    ELSE IF operator = <<"*">> THEN Literal(NumMul(JsToNumber(left.value), JsToNumber(right.value)))
    ELSE IF operator = <<"/">> THEN Literal(NumDiv(JsToNumber(left.value), JsToNumber(right.value)))
    ELSE BinaryOp(operator, left, right)

RECURSIVE foldConstants(_)
\* A BINARY_OP folds its operands, then either is evaluated or falls into the
\* for...in loop, which folds left and right once more.  The loop folds
\* every object-valued field and every item of an array-valued field; the
\* items of COLUMN.parts are strings, which the call returns as they are.
foldConstants(node) ==
    IF node = Null \/ node = Undefined THEN node
    ELSE IF node.type = "BINARY_OP"
    THEN LET left == foldConstants(node.left)
             right == foldConstants(node.right)
         IN  IF left.type = "LITERAL" /\ right.type = "LITERAL"
             THEN evaluateBinaryOp(node.operator, left, right)
             ELSE [node EXCEPT !.left = foldConstants(left),
                               !.right = foldConstants(right)]
    ELSE IF node.type = "SELECT"
    THEN [node EXCEPT
            !.columns = [i \in DOMAIN node.columns |-> foldConstants(node.columns[i])],
            !.from = [i \in DOMAIN node.from |-> foldConstants(node.from[i])],
            !.where = foldConstants(node.where),
            !.groupBy = [i \in DOMAIN node.groupBy |-> foldConstants(node.groupBy[i])],
            !.having = foldConstants(node.having),
            !.orderBy = [i \in DOMAIN node.orderBy |->
                            [node.orderBy[i] EXCEPT
                               !.expression = foldConstants(node.orderBy[i].expression)]]]
    ELSE IF node.type = "JOIN" /\ "condition" \in DOMAIN node
    THEN [node EXCEPT !.left = foldConstants(node.left),
                      !.right = foldConstants(node.right),
                      !.condition = foldConstants(node.condition)]
    ELSE IF node.type = "JOIN"
    THEN [node EXCEPT !.left = foldConstants(node.left),
                      !.right = foldConstants(node.right),
                      !.predicates = [i \in DOMAIN node.predicates |->
                                         foldConstants(node.predicates[i])]]
    ELSE IF node.type = "FUNCTION"
    THEN [node EXCEPT
            !.arguments = [i \in DOMAIN node.arguments |-> foldConstants(node.arguments[i])]]
    ELSE node

\* foldConstants reads node.left.type and node.right.type of a BINARY_OP:
\* TRUE when one of them is read from null or undefined.
RECURSIVE foldConstantsThrows(_)
foldConstantsThrows(node) ==
    IF node = Null \/ node = Undefined THEN FALSE
    ELSE IF node.type = "BINARY_OP"
    THEN \/ foldConstantsThrows(node.left) \/ foldConstantsThrows(node.right)
         \/ foldConstants(node.left) \in {Null, Undefined}
         \/ foldConstants(node.right) \in {Null, Undefined}
    ELSE IF node.type = "SELECT"
    THEN \/ \E i \in DOMAIN node.columns : foldConstantsThrows(node.columns[i])
         \/ \E i \in DOMAIN node.from : foldConstantsThrows(node.from[i])
         \/ foldConstantsThrows(node.where)
         \/ \E i \in DOMAIN node.groupBy : foldConstantsThrows(node.groupBy[i])
         \/ foldConstantsThrows(node.having)
         \/ \E i \in DOMAIN node.orderBy : foldConstantsThrows(node.orderBy[i].expression)
    ELSE IF node.type = "JOIN" /\ "condition" \in DOMAIN node
    THEN \/ foldConstantsThrows(node.left) \/ foldConstantsThrows(node.right)
         \/ foldConstantsThrows(node.condition)
    ELSE IF node.type = "JOIN"
    THEN \/ foldConstantsThrows(node.left) \/ foldConstantsThrows(node.right)
         \/ \E i \in DOMAIN node.predicates : foldConstantsThrows(node.predicates[i])
    ELSE IF node.type = "FUNCTION"
    THEN \E i \in DOMAIN node.arguments : foldConstantsThrows(node.arguments[i])
    ELSE FALSE

eliminateDuplicates(a) == a
simplifyPredicates(a) == a

rewriteQuery(a) == simplifyPredicates(eliminateDuplicates(foldConstants(a)))

\* The object `node` as it is after foldConstants(node) returned.  The
\* assignments node.left = ..., node.right = ... and node[key] = ... write
\* the folded children into the object itself: an evaluated BINARY_OP keeps
\* its type and operator and holds its folded operands, every other object
\* is the one that is returned.
foldedInPlace(node) ==
    IF node = Null \/ node = Undefined THEN node
    ELSE IF /\ node.type = "BINARY_OP"
            /\ foldConstants(node.left).type = "LITERAL"
            /\ foldConstants(node.right).type = "LITERAL"
    THEN [node EXCEPT !.left = foldConstants(node.left),
                      !.right = foldConstants(node.right)]
    ELSE foldConstants(node)

\* The object `a` after rewriteQuery(a) returned: eliminateDuplicates and
\* simplifyPredicates return their argument.
rewrittenInPlace(a) == foldedInPlace(a)


-----------------------------------------------------------------------------
(* Catalog access and selectivity estimates *)

\* this.statistics.get(name)
statisticsGet(name) ==
    IF name \in DOMAIN statistics THEN statistics[name] ELSE Undefined

DefaultRowCount == 1000

getTableScanCost(table) ==
    LET stats == statisticsGet(table.name)
    IN  IF stats # Undefined THEN stats.rowCount ELSE IntNum(DefaultRowCount)

getTableCardinality(table) ==
    LET stats == statisticsGet(table.name)
    IN  IF stats # Undefined THEN stats.rowCount ELSE IntNum(DefaultRowCount)

\* predicate.operator (undefined when the node has no such field)
operatorOf(predicate) ==
    IF "operator" \in DOMAIN predicate THEN predicate.operator ELSE <<>>

estimatePredicateSelectivity(predicate) ==
    IF operatorOf(predicate) = <<"=">> THEN Num(1, 10)
    ELSE IF operatorOf(predicate) = <<"<">> \/ operatorOf(predicate) = <<">">> THEN Num(3, 10)
    ELSE IF operatorOf(predicate) = <<"L","I","K","E">> THEN Num(1, 4)
    ELSE IF operatorOf(predicate) = <<"I","N">> THEN Num(1, 5)
    ELSE Num(1, 2)

RECURSIVE estimateSelectivity(_)
\* predicates.reduce((sel, pred) => sel * estimatePredicateSelectivity(pred), 1)
estimateSelectivity(predicates) ==
    IF predicates = <<>> THEN IntNum(1)
    ELSE NumMul(estimateSelectivity(Take(predicates, Len(predicates) - 1)),
                estimatePredicateSelectivity(predicates[Len(predicates)]))

-----------------------------------------------------------------------------
(* optimizeJoinOrder *)

RECURSIVE extractNode(_)
\* the closure `extract` of extractTables: the TABLE nodes under a from entry
extractNode(node) ==
    IF node.type = "TABLE" THEN <<node>>
    ELSE IF node.type = "JOIN" THEN extractNode(node.left) \o extractNode(node.right)
    ELSE <<>>

RECURSIVE extractTables(_)
extractTables(from) ==
    IF from = <<>> THEN <<>>
    ELSE extractNode(Head(from)) \o extractTables(Tail(from))

\* "implementation omitted": always the empty list
extractJoinPredicates(a) == <<>>

isPredicateApplicable(predicate, mask) == TRUE

\* "implementation omitted"
hasIndex(column) == FALSE

canUseMergeJoin(predicates) ==
    \E i \in DOMAIN predicates :
        /\ "type" \in DOMAIN predicates[i] /\ predicates[i].type = "EQUALITY"
        /\ hasIndex(predicates[i].left) /\ hasIndex(predicates[i].right)

RECURSIVE Pow2(_)
Pow2(k) == IF k = 0 THEN 1 ELSE 2 * Pow2(k - 1)          \* 1 << k

RECURSIVE BitAnd(_, _)
BitAnd(a, b) ==
    IF a = 0 \/ b = 0 THEN 0
    ELSE 2 * BitAnd(a \div 2, b \div 2) + (IF a % 2 = 1 /\ b % 2 = 1 THEN 1 ELSE 0)

RECURSIVE BitXor(_, _)
BitXor(a, b) ==
    IF a = 0 THEN b ELSE IF b = 0 THEN a
    ELSE 2 * BitXor(a \div 2, b \div 2) + (IF a % 2 # b % 2 THEN 1 ELSE 0)

RECURSIVE PopCount(_)
PopCount(m) == IF m = 0 THEN 0 ELSE (m % 2) + PopCount(m \div 2)

\* Math.ceil(Math.log2(k)) for an integer k >= 1
RECURSIVE CeilLog2(_)
CeilLog2(k) == IF k <= 1 THEN 0 ELSE 1 + CeilLog2((k + 1) \div 2)

\* Math.floor(Math.log2(k)) for an integer k >= 1
RECURSIVE FloorLog2(_)
FloorLog2(k) == IF k <= 1 THEN 0 ELSE 1 + FloorLog2(k \div 2)

\* Math.log2(a).  Exact at 0, at the non-finite values and at the integer
\* powers of two; elsewhere on the integers the value is irrational and is
\* interpolated linearly between the two neighbouring powers of two; a
\* non-integer is taken at its integer part.
log2(a) ==
    IF IsNaN(a) \/ a.n < 0 THEN NaN
    ELSE IF a.d = 0 THEN Infinity
    ELSE IF a.n = 0 THEN NegInfinity
    ELSE IF a.n < a.d THEN NumNeg(IntNum(CeilLog2((a.d + a.n - 1) \div a.n)))
    ELSE LET k == a.n \div a.d
             f == FloorLog2(k)
         IN  NumAdd(IntNum(f), Num(k - Pow2(f), Pow2(f)))

hasEquality(predicates) ==
    \E i \in DOMAIN predicates :
        "type" \in DOMAIN predicates[i] /\ predicates[i].type = "EQUALITY"

\* the method and cost chosen after the nested-loop and hash-join steps
nestedOrHash(leftCard, rightCard, applicable) ==
    IF hasEquality(applicable) /\ NumLt(NumAdd(leftCard, rightCard), NumMul(leftCard, rightCard))
    THEN [method |-> "HASH_JOIN", cost |-> NumAdd(leftCard, rightCard)]
    ELSE [method |-> "NESTED_LOOP", cost |-> NumMul(leftCard, rightCard)]

mergeCostOf(leftCard, rightCard) ==
    NumAdd(NumMul(leftCard, log2(leftCard)), NumMul(rightCard, log2(rightCard)))

\* the merge-join step on the choice made so far
orMerge(choice, leftCard, rightCard, applicable) ==
    IF canUseMergeJoin(applicable) /\ NumLt(mergeCostOf(leftCard, rightCard), choice.cost)
    THEN [method |-> "MERGE_JOIN", cost |-> mergeCostOf(leftCard, rightCard)]
    ELSE choice

joinCostOf(choice, leftCard, rightCard, applicable) ==
    [cost |-> choice.cost,
     method |-> choice.method,
     cardinality |-> NumMul(NumMul(leftCard, rightCard), estimateSelectivity(applicable)),
     predicates |-> applicable]

joinCostFor(leftCard, rightCard, applicable) ==
    joinCostOf(orMerge(nestedOrHash(leftCard, rightCard, applicable),
                       leftCard, rightCard, applicable),
               leftCard, rightCard, applicable)

estimateJoinCost(left, right, predicates, mask) ==
    joinCostFor(left.cardinality, right.cardinality,
                SelectSeq(predicates, LAMBDA p : isPredicateApplicable(p, mask)))

RECURSIVE generate(_, _, _, _)
\* the closure `generate` of generateCombinations: the masks it pushes
generate(n, start, cur, rem) ==
    IF rem = 0 THEN <<cur>>
    ELSE IF start >= n THEN <<>>
    ELSE generate(n, start + 1, cur + Pow2(start), rem - 1) \o generate(n, start + 1, cur, rem)

generateCombinations(n, k) == generate(n, 0, 0, k)

dpGet(d, mask) == IF mask \in DOMAIN d THEN d[mask] ELSE Undefined

\* A candidate replaces the best one when totalCost < bestCost.
Better(totalCost, bestCost) == NumLt(totalCost, bestCost)

\* SkipSplit that also skips the splits into two sets of several tables
SkipSplitBushy(subset, complement) ==
    \/ complement = 0
    \/ complement >= subset
    \/ (PopCount(subset) > 1 /\ PopCount(complement) > 1)

\* SkipSplit that keeps the mirrored pairs, those with subset < complement
SkipSplitMirrored(subset, complement) == complement = 0 \/ complement <= subset

\* The split is skipped: if (complement === 0 || complement >= subset) continue
SkipSplit(subset, complement) == complement = 0 \/ complement >= subset

\* best after the candidate (left, right) with its joinCost was compared
candidate(left, right, joinCost, best) ==
    IF Better(NumAdd(NumAdd(left.cost, right.cost), joinCost.cost), best.cost)
    THEN [cost |-> NumAdd(NumAdd(left.cost, right.cost), joinCost.cost),
          plan |-> [type |-> "JOIN", left |-> left.plan, right |-> right.plan,
                    method |-> joinCost.method, predicates |-> joinCost.predicates],
          cardinality |-> joinCost.cardinality]
    ELSE best

\* best after the body of the split loop ran for `subset`
splitBody(subset, complement, mask, d, predicates, best) ==
    IF SkipSplit(subset, complement) THEN best
    ELSE IF dpGet(d, subset) = Undefined \/ dpGet(d, complement) = Undefined THEN best
    ELSE candidate(dpGet(d, subset), dpGet(d, complement),
                   estimateJoinCost(dpGet(d, subset), dpGet(d, complement), predicates, mask),
                   best)

RECURSIVE splitLoop(_, _, _, _, _)
\* for (subset = mask; subset > 0; subset = (subset - 1) & mask), from
\* `subset` on, with best = [cost, plan, cardinality] so far
splitLoop(subset, mask, d, predicates, best) ==
    IF subset <= 0 THEN best
    ELSE splitLoop(BitAnd(subset - 1, mask), mask, d, predicates,
                   splitBody(subset, BitXor(mask, subset), mask, d, predicates, best))

\* the body of the forEach over the masks of one size
dpSet(d, mask, best) == IF best.plan # Null THEN (mask :> best) @@ d ELSE d

dpMask(d, mask, predicates) ==
    dpSet(d, mask, splitLoop(mask, mask, d, predicates,
                             [cost |-> Infinity, plan |-> Null, cardinality |-> IntNum(0)]))

RECURSIVE dpMasks(_, _, _)
\* the forEach over the masks of one size.  dp is read before the body
\* runs; while it is empty no split finds its two entries, so that no entry
\* is set.
dpMasks(d, masks, predicates) ==
    IF DOMAIN d = {} \/ masks = <<>> THEN d
    ELSE dpMasks(dpMask(d, Head(masks), predicates), Tail(masks), predicates)

RECURSIVE dpRounds(_, _, _, _)
\* for (size = ...; size <= n; size++), from `size` on
dpRounds(d, n, size, predicates) ==
    IF size > n THEN d
    ELSE dpRounds(dpMasks(d, generateCombinations(n, size), predicates),
                  n, size + 1, predicates)

\* dp after the single-table initialisation
dpInit(tables) ==
    [mask \in {Pow2(i - 1) : i \in DOMAIN tables} |->
        LET i == CHOOSE j \in DOMAIN tables : Pow2(j - 1) = mask
        IN  [cost |-> getTableScanCost(tables[i]),
             plan |-> tables[i],
             cardinality |-> getTableCardinality(tables[i])]]

\* the Map `dp` at the end of optimizeJoinOrder (empty on the early return)
joinOrderDp(a) ==
    IF Len(a.from) <= 1 THEN << >>
    ELSE LET tables == extractTables(a.from)
         IN  dpRounds(dpInit(tables), Len(tables), 2, extractJoinPredicates(a))

\* setFrom that puts the plan in the place of the first entry of from only
setFromFirst(a, result) ==
    IF result # Undefined THEN [a EXCEPT !.from = <<result.plan>> \o Tail(a.from)] ELSE a

\* if (result) ast.from = [result.plan]
setFrom(a, result) ==
    IF result # Undefined THEN [a EXCEPT !.from = <<result.plan>>] ELSE a

\* optimizeJoinOrder without the early return, the single-table entries of
\* dp holding a table reference built anew from the table's name
optimizeJoinOrderRebuilding(a) ==
    IF Len(extractTables(a.from)) = 1
    THEN setFrom(a, [plan |-> [type |-> "TABLE", name |-> extractTables(a.from)[1].name,
                               alias |-> <<>>]])
    ELSE setFrom(a, dpGet(joinOrderDp(a), Pow2(Len(extractTables(a.from))) - 1))

optimizeJoinOrder(a) ==
    IF Len(a.from) <= 1 THEN a
    ELSE setFrom(a, dpGet(joinOrderDp(a), Pow2(Len(extractTables(a.from))) - 1))


-----------------------------------------------------------------------------
(* flattenSubqueries, pushDownPredicates, selectIndexes *)

flattenExists(where, a) == where
flattenIn(where, a) == where
optimizeScalarSubqueries(a) == a

flattenSubqueries(a) ==
    LET a1 == IF a.where # Null THEN [a EXCEPT !.where = flattenExists(a.where, a)] ELSE a
        a2 == IF a1.where # Null THEN [a1 EXCEPT !.where = flattenIn(a1.where, a1)] ELSE a1
    IN  optimizeScalarSubqueries(a2)

RECURSIVE extractPredicates(_)
\* the top-level AND conjuncts of where, left to right
extractPredicates(where) ==
    IF where = Null THEN <<>>
    ELSE IF where.type = "BINARY_OP" /\ where.operator = <<"A","N","D">>
    THEN extractPredicates(where.left) \o extractPredicates(where.right)
    ELSE <<where>>

RECURSIVE getPredicateTables(_)
\* the Set of parts[0] of the qualified COLUMN nodes reached through
\* the left and right fields
getPredicateTables(node) ==
    (IF node.type = "COLUMN" /\ Len(node.parts) > 1 THEN {node.parts[1]} ELSE {})
    \cup (IF "left" \in DOMAIN node /\ node.left # Null
          THEN getPredicateTables(node.left) ELSE {})
    \cup (IF "right" \in DOMAIN node /\ node.right # Null
          THEN getPredicateTables(node.right) ELSE {})

\* the Map `pushed` of pushDownPredicates: table -> its conjuncts, in order
pushedPredicates(where) ==
    LET predicates == extractPredicates(where)
        single == {i \in DOMAIN predicates : Cardinality(getPredicateTables(predicates[i])) = 1}
        tableOf(i) == CHOOSE t \in getPredicateTables(predicates[i]) : TRUE
    IN  [t \in {tableOf(i) : i \in single} |->
            SelectSeq(predicates,
                      LAMBDA p : getPredicateTables(p) = {t})]

\* "implementation omitted": the from list comes back as it is
applyPushedPredicates(from, pushed) == from

pushDownPredicates(a) ==
    IF a.where = Null THEN a
    ELSE [a EXCEPT !.from = applyPushedPredicates(a.from, pushedPredicates(a.where))]

\* this.indexes is a Map; it is modelled as the sequence of its entries in
\* insertion order, each carrying its key as `name`.
getCandidateIndexes(a) == indexes

indexesGet(name) ==
    IF \E i \in DOMAIN indexes : indexes[i].name = name
    THEN indexes[CHOOSE i \in DOMAIN indexes : indexes[i].name = name]
    ELSE Undefined

\* index.selectivity || 0.1
selectivityOr(index) ==
    IF index.selectivity.n = 0 THEN Num(1, 10) ELSE index.selectivity

estimateIndexCost(index, a) ==
    NumMul(getTableScanCost([name |-> index.table]), selectivityOr(index))

RECURSIVE bestIndexLoopLe(_, _, _)
\* the loop with `cost <= bestCost` in the place of `cost < bestCost`
bestIndexLoopLe(tableIndexes, a, best) ==
    IF tableIndexes = <<>> THEN best
    ELSE LET c == estimateIndexCost(Head(tableIndexes), a)
         IN  bestIndexLoopLe(Tail(tableIndexes), a,
                             IF NumLe(c, best.cost)
                             THEN [index |-> Head(tableIndexes), cost |-> c]
                             ELSE best)

RECURSIVE bestIndexLoop(_, _, _)
\* tableIndexes.forEach(...) with best = [index, cost] so far
bestIndexLoop(tableIndexes, a, best) ==
    IF tableIndexes = <<>> THEN best
    ELSE LET c == estimateIndexCost(Head(tableIndexes), a)
         IN  bestIndexLoop(Tail(tableIndexes), a,
                           IF NumLt(c, best.cost)
                           THEN [index |-> Head(tableIndexes), cost |-> c]
                           ELSE best)

\* what the forEach body of selectIndexes pushes for one table
selectForTable(table, a) ==
    LET tableIndexes == SelectSeq(getCandidateIndexes(a), LAMBDA idx : idx.table = table.name)
        best == bestIndexLoop(tableIndexes, a,
                              [index |-> Null, cost |-> getTableScanCost(table)])
    IN  IF tableIndexes = <<>> \/ best.index = Null THEN <<>> ELSE <<best.index>>

RECURSIVE selectLoop(_, _)
selectLoop(tables, a) ==
    IF tables = <<>> THEN <<>>
    ELSE selectForTable(Head(tables), a) \o selectLoop(Tail(tables), a)

selectIndexes(a) == selectLoop(extractTables(a.from), a)

-----------------------------------------------------------------------------
(* generateExecutionPlan *)

\* indexes.find(idx => idx.table === name)
findIndex(idxs, name) ==
    IF \E i \in DOMAIN idxs : idxs[i].table = name
    THEN idxs[CHOOSE i \in DOMAIN idxs :
                 idxs[i].table = name /\ \A j \in 1..(i-1) : idxs[j].table # name]
    ELSE Undefined

RECURSIVE generateFromPlan(_, _)
generateFromPlan(from, idxs) ==
    IF from.type = "TABLE"
    THEN IF findIndex(idxs, from.name) # Undefined
         THEN [type |-> "INDEX_SCAN", table |-> from.name,
               index |-> findIndex(idxs, from.name).name, children |-> <<>>]
         ELSE [type |-> "TABLE_SCAN", table |-> from.name, children |-> <<>>]
    ELSE IF from.type = "JOIN"
    THEN [type |-> IF "method" \in DOMAIN from THEN from.method ELSE "NESTED_LOOP_JOIN",
          condition |-> IF "condition" \in DOMAIN from THEN from.condition ELSE Undefined,
          children |-> <<generateFromPlan(from.left, idxs),
                         generateFromPlan(from.right, idxs)>>]
    ELSE from

\* if (ast.limit): null, 0 and NaN are falsy
limitTruthy(limit) == limit # Null /\ limit.n # 0

generateExecutionPlan(a, idxs) ==
    [type |-> "QUERY_PLAN",
     operation |-> "SELECT",
     children |->
        (IF a.from # <<>> THEN <<generateFromPlan(a.from[1], idxs)>> ELSE <<>>)
        \o (IF a.where # Null
            THEN <<[type |-> "FILTER", predicate |-> a.where, children |-> <<>>]>>
            ELSE <<>>)
        \o (IF a.groupBy # <<>>
            THEN <<[type |-> "GROUP", expressions |-> a.groupBy, children |-> <<>>]>>
            ELSE <<>>)
        \o (IF a.orderBy # <<>>
            THEN <<[type |-> "SORT", expressions |-> a.orderBy, children |-> <<>>]>>
            ELSE <<>>)
        \o (IF limitTruthy(a.limit)
            THEN <<[type |-> "LIMIT", count |-> a.limit, children |-> <<>>]>>
            ELSE <<>>)]

-----------------------------------------------------------------------------
(* estimateCost *)

\* node.children[i] (0-based); undefined beyond the end of the array
child(node, i) ==
    IF i + 1 \in DOMAIN node.children THEN node.children[i + 1] ELSE Undefined

\* the B-tree estimate with the scanned rows subtracted from the height
getIndexScanCostMinus(indexName, tableName) ==
    LET stats == statisticsGet(tableName)
        index == indexesGet(indexName)
    IN  IF stats = Undefined \/ index = Undefined THEN IntNum(100)
        ELSE LET height == IF stats.rowCount.n = 0 THEN NegInfinity
                           ELSE IntNum(CeilLog2(stats.rowCount.n))
             IN  NumSub(height, NumMul(stats.rowCount, index.selectivity))

getIndexScanCost(indexName, tableName) ==
    LET stats == statisticsGet(tableName)
        index == indexesGet(indexName)
    IN  IF stats = Undefined \/ index = Undefined THEN IntNum(100)
        ELSE LET height == IF stats.rowCount.n = 0 THEN NegInfinity
                           ELSE IntNum(CeilLog2(stats.rowCount.n))
             IN  NumAdd(height, NumMul(stats.rowCount, index.selectivity))

estimateJoinSelectivity(join) ==
    IF join.condition # Undefined /\ join.condition # Null
    THEN estimatePredicateSelectivity(join.condition)
    ELSE Num(1, 10)

RECURSIVE estimateCardinality(_)
estimateCardinality(node) ==
    IF node = Undefined THEN IntNum(1)
    ELSE IF node.type \in {"TABLE_SCAN", "TABLE"}
    THEN getTableCardinality([name |-> IF "table" \in DOMAIN node THEN node.table
                                       ELSE node.name])
    ELSE IF node.type = "FILTER"
    THEN NumMul(estimateCardinality(child(node, 0)), estimateSelectivity(<<node.predicate>>))
    ELSE IF node.type \in {"JOIN", "NESTED_LOOP_JOIN", "HASH_JOIN"}
    THEN NumMul(NumMul(estimateCardinality(child(node, 0)),
                       estimateCardinality(child(node, 1))),
                estimateJoinSelectivity(node))
    ELSE IF node.children # <<>> THEN estimateCardinality(child(node, 0))
    ELSE IntNum(1)

RECURSIVE sumCosts(_, _)
RECURSIVE estimatePlanCost(_)
estimatePlanCost(node) ==
    IF node = Undefined THEN IntNum(0)
    ELSE IF node.type = "TABLE_SCAN" THEN getTableScanCost([name |-> node.table])
    ELSE IF node.type = "INDEX_SCAN" THEN getIndexScanCost(node.index, node.table)
    ELSE IF node.type = "NESTED_LOOP_JOIN"
    THEN NumAdd(NumAdd(estimatePlanCost(child(node, 0)), estimatePlanCost(child(node, 1))),
                NumMul(estimateCardinality(child(node, 0)),
                       estimateCardinality(child(node, 1))))
    ELSE IF node.type = "HASH_JOIN"
    THEN NumAdd(NumAdd(NumAdd(estimatePlanCost(child(node, 0)),
                              estimatePlanCost(child(node, 1))),
                       estimateCardinality(child(node, 0))),
                estimateCardinality(child(node, 1)))
    ELSE IF node.type = "FILTER"
    THEN NumAdd(estimatePlanCost(child(node, 0)),
                NumMul(estimateCardinality(child(node, 0)), Num(1, 10)))
    ELSE IF node.type = "SORT"
    THEN LET card == estimateCardinality(child(node, 0))
         IN  NumAdd(estimatePlanCost(child(node, 0)), NumMul(card, log2(card)))
    ELSE sumCosts(node.children, IntNum(0))

\* node.children.reduce((sum, child) => sum + estimatePlanCost(child), 0)
sumCosts(children, sum) ==
    IF children = <<>> THEN sum
    ELSE sumCosts(Tail(children), NumAdd(sum, estimatePlanCost(Head(children))))

estimateCost(p) == estimatePlanCost(p)

\* estimatePlanCost and estimateCardinality read node.type after their
\* `if (!node)` guards, on the children that the node's case names: TRUE when
\* a property is read from an undefined child.
RECURSIVE estimateCostThrows(_)
estimateCostThrows(node) ==
    IF node = Undefined THEN FALSE
    ELSE IF node.type \in {"NESTED_LOOP_JOIN", "HASH_JOIN"}
    THEN estimateCostThrows(child(node, 0)) \/ estimateCostThrows(child(node, 1))
    ELSE IF node.type \in {"FILTER", "SORT"}
    THEN estimateCostThrows(child(node, 0))
    ELSE \E i \in DOMAIN node.children : estimateCostThrows(node.children[i])


-----------------------------------------------------------------------------
(* optimize as one call *)

\* step 7 and the returned object
optimizeReturn(a, idxs, p) ==
    IF estimateCostThrows(p) THEN TypeError
    ELSE [kind |-> "ok", ast |-> a, plan |-> p, cost |-> estimateCost(p), indexes |-> idxs]

\* step 6
optimizePlan(a, idxs) == optimizeReturn(a, idxs, generateExecutionPlan(a, idxs))

\* step 5
optimizeIndexes(a) == optimizePlan(a, selectIndexes(a))

\* steps 1 to 4, then the rest
optimize(a) ==
    IF foldConstantsThrows(a) THEN TypeError
    ELSE optimizeIndexes(pushDownPredicates(flattenSubqueries(
                            optimizeJoinOrder(rewriteQuery(a)))))

-----------------------------------------------------------------------------
(* Inputs *)

\* The SQL texts the pipeline is run on:
\*   QStar        SELECT * FROM users
\*   QWhere       SELECT a FROM t WHERE a = 1
\*   QNoList      SELECT FROM t
\*   QEndToEnd    SELECT u.name, p.title FROM users u JOIN posts p ON u.id = p.user_id WHERE u.email = 'x@example.com' LIMIT 10
\*   QFold        SELECT 2 + 3 FROM t x
\*   QThree       SELECT a FROM A x, B y, C z WHERE x.id = y.id AND y.id = z.id AND (((1 + 2) * 3) - 4) < x.n ORDER BY a DESC LIMIT 5
\*   QClauses     SELECT f(8 / 0, 'a' + 1), COUNT() FROM t x GROUP BY (4 / 2) HAVING a > (1 - 3) ORDER BY (1 + 1) ASC, b LIMIT 0
\*   QJoins       SELECT a FROM t x JOIN s y ON (1 + 1) = x.a LEFT JOIN r ON (2 * 2) = 4 WHERE 1 = 1 OR (6 / 4) = a
\*   QComma       select a from t1, t2 AS x
\*   QNoFrom      SELECT a b
\*   QStringFrom  SELECT a 'FROM' t WHERE a = 1
\*   QStarString  SELECT '*' FROM t x
\*   QTrailing    SELECT a FROM t WHERE a = 1 extra
\*   QOrderBy     SELECT a FROM t ORDER BY a
\*   QBare        SELECT a FROM t
\*   QCut         SELECT a FROM
\*   QNoTable     SELECT a FROM WHERE a = 1
\*   QOdd         SELECT #a FROM 't x
QStar ==
    <<"S","E","L","E","C","T"," ","*"," ","F","R","O","M"," ","u","s","e","r","s">>
QWhere ==
    <<"S","E","L","E","C","T"," ","a"," ","F","R","O","M"," ","t"," ","W","H","E","R","E"," ","a"," ","="," ","1">>
QNoList ==
    <<"S","E","L","E","C","T"," ","F","R","O","M"," ","t">>
QEndToEnd ==
    <<"S","E","L","E","C","T"," ","u",".","n","a","m","e",","," ","p",".","t","i","t","l","e"," ","F","R","O","M"," ","u","s","e","r","s"," ","u"," ","J","O","I","N"," ","p","o","s","t","s"," ","p"," ","O","N"," ","u",".","i","d"," ","="," ","p",".","u","s","e","r","_","i","d"," ","W","H","E","R","E"," ","u",".","e","m","a","i","l"," ","="," ","'","x","@","e","x","a","m","p","l","e",".","c","o","m","'"," ","L","I","M","I","T"," ","1","0">>
QFold ==
    <<"S","E","L","E","C","T"," ","2"," ","+"," ","3"," ","F","R","O","M"," ","t"," ","x">>
QThree ==
    <<"S","E","L","E","C","T"," ","a"," ","F","R","O","M"," ","A"," ","x",","," ","B"," ","y",","," ","C"," ","z"," ","W","H","E","R","E"," ","x",".","i","d"," ","="," ","y",".","i","d"," ","A","N","D"," ","y",".","i","d"," ","="," ","z",".","i","d"," ","A","N","D"," ","(","(","(","1"," ","+"," ","2",")"," ","*"," ","3",")"," ","-"," ","4",")"," ","<"," ","x",".","n"," ","O","R","D","E","R"," ","B","Y"," ","a"," ","D","E","S","C"," ","L","I","M","I","T"," ","5">>
QClauses ==
    <<"S","E","L","E","C","T"," ","f","(","8"," ","/"," ","0",","," ","'","a","'"," ","+"," ","1",")",","," ","C","O","U","N","T","(",")"," ","F","R","O","M"," ","t"," ","x"," ","G","R","O","U","P"," ","B","Y"," ","(","4"," ","/"," ","2",")"," ","H","A","V","I","N","G"," ","a"," ",">"," ","(","1"," ","-"," ","3",")"," ","O","R","D","E","R"," ","B","Y"," ","(","1"," ","+"," ","1",")"," ","A","S","C",","," ","b"," ","L","I","M","I","T"," ","0">>
QJoins ==
    <<"S","E","L","E","C","T"," ","a"," ","F","R","O","M"," ","t"," ","x"," ","J","O","I","N"," ","s"," ","y"," ","O","N"," ","(","1"," ","+"," ","1",")"," ","="," ","x",".","a"," ","L","E","F","T"," ","J","O","I","N"," ","r"," ","O","N"," ","(","2"," ","*"," ","2",")"," ","="," ","4"," ","W","H","E","R","E"," ","1"," ","="," ","1"," ","O","R"," ","(","6"," ","/"," ","4",")"," ","="," ","a">>
QOnAnd ==
    <<"S","E","L","E","C","T"," ","a"," ","F","R","O","M"," ","t"," ","x"," ","J","O","I","N"," ","s"," ","y"," ","O","N"," ","x",".","a"," ","="," ","y",".","a"," ","A","N","D"," ","x",".","b"," ","="," ","y",".","b"," ","W","H","E","R","E"," ","x",".","a"," ","="," ","1"," ","A","N","D"," ","y",".","b"," ","="," ","2">>
QJoinComma ==
    <<"S","E","L","E","C","T"," ","a"," ","F","R","O","M"," ","t"," ","x"," ","J","O","I","N"," ","s"," ","y"," ","O","N"," ","x",".","a"," ","="," ","y",".","a",","," ","r"," ","z"," ","W","H","E","R","E"," ","z",".","a"," ","="," ","1">>
QComma ==
    <<"s","e","l","e","c","t"," ","a"," ","f","r","o","m"," ","t","1",","," ","t","2"," ","A","S"," ","x">>
QNoFrom ==
    <<"S","E","L","E","C","T"," ","a"," ","b">>
QStringFrom ==
    <<"S","E","L","E","C","T"," ","a"," ","'","F","R","O","M","'"," ","t"," ","W","H","E","R","E"," ","a"," ","="," ","1">>
QStarString ==
    <<"S","E","L","E","C","T"," ","'","*","'"," ","F","R","O","M"," ","t"," ","x">>
QTrailing ==
    <<"S","E","L","E","C","T"," ","a"," ","F","R","O","M"," ","t"," ","W","H","E","R","E"," ","a"," ","="," ","1"," ","e","x","t","r","a">>
QOrderBy ==
    <<"S","E","L","E","C","T"," ","a"," ","F","R","O","M"," ","t"," ","O","R","D","E","R"," ","B","Y"," ","a">>
QBare ==
    <<"S","E","L","E","C","T"," ","a"," ","F","R","O","M"," ","t">>
QCut ==
    <<"S","E","L","E","C","T"," ","a"," ","F","R","O","M">>
QNoTable ==
    <<"S","E","L","E","C","T"," ","a"," ","F","R","O","M"," ","W","H","E","R","E"," ","a"," ","="," ","1">>
QOdd ==
    <<"S","E","L","E","C","T"," ","#","a"," ","F","R","O","M"," ","'","t"," ","x">>

Queries ==
    {QStar, QWhere, QNoList, QEndToEnd, QFold, QThree, QClauses, QJoins, QComma,
     QOnAnd, QJoinComma, QNoFrom, QStringFrom, QStarString, QTrailing, QOrderBy, QBare, QCut, QNoTable, QOdd}

\* The statements of the supported grammar among Queries.
GrammaticalQueries ==
    {QStar, QWhere, QEndToEnd, QFold, QThree, QClauses, QJoins, QComma, QOnAnd,
     QJoinComma, QOrderBy, QBare}

Stats(rowCount) == [rowCount |-> IntNum(rowCount)]
Index(name, table, column, unique, selectivity) ==
    [name |-> name, table |-> table, columns |-> <<column>>, unique |-> unique,
     selectivity |-> selectivity]

\* The catalogs the optimizer is run against: none; the one of example()
\* (posts scaled down) extended with small tables; one with an indexed
\* empty table t, with two indexes on the table s, of selectivity 0 and
\* 0.05, with indexes on a table r that has no statistics entry, and with
\* an index of selectivity 0.9 on the two-row table t2.
EmptyCatalog == [statistics |-> << >>, indexes |-> <<>>]
ExampleCatalog ==
    [statistics |-> (<<"u","s","e","r","s">> :> Stats(100000)) @@ (<<"p","o","s","t","s">> :> Stats(1000))
                    @@ (<<"t">> :> Stats(50)) @@ (<<"A">> :> Stats(100))
                    @@ (<<"B">> :> Stats(10000)) @@ (<<"C">> :> Stats(50)),
     indexes |-> <<Index(<<"u","s","e","r","s","_","e","m","a","i","l","_","i","d","x">>, <<"u","s","e","r","s">>, <<"e","m","a","i","l">>, TRUE, Num(1, 100000)),
                   Index(<<"p","o","s","t","s","_","u","s","e","r","_","i","d","_","i","d","x">>, <<"p","o","s","t","s">>, <<"u","s","e","r","_","i","d">>, FALSE, Num(1, 100000)),
                   Index(<<"t","_","a","_","i","d","x">>, <<"t">>, <<"a">>, FALSE, Num(1, 2))>>]
SmallCatalog ==
    [statistics |-> (<<"t">> :> Stats(0)) @@ (<<"s">> :> Stats(7)) @@ (<<"t","1">> :> Stats(3))
                    @@ (<<"t","2">> :> Stats(2)),
     indexes |-> <<Index(<<"t","2","_","i","d","x">>, <<"t","2">>, <<"a">>, FALSE, Num(9, 10)),
                   Index(<<"s","_","i","d","x">>, <<"s">>, <<"a">>, FALSE, IntNum(0)),
                   Index(<<"s","_","l","o","w","_","i","d","x">>, <<"s">>, <<"b">>, FALSE, Num(1, 20)),
                   Index(<<"t","_","i","d","x">>, <<"t">>, <<"a">>, FALSE, Num(1, 2)),
                   Index(<<"r","_","i","d","x">>, <<"r">>, <<"a">>, FALSE, IntNum(1)),
                   Index(<<"r","_","h","a","l","f","_","i","d","x">>, <<"r">>, <<"a">>, FALSE, Num(1, 2)),
                   Index(<<"t","1","_","i","d","x">>, <<"t","1">>, <<"a">>, TRUE, Num(1, 3))>>]
Catalogs == {EmptyCatalog, ExampleCatalog, SmallCatalog}

-----------------------------------------------------------------------------
(* The pipeline tokenize -> parse -> optimize as a state machine *)

\* The names bound where parseSQL evaluates `new Parser(tokens)`: its
\* parameter and locals, and the declarations of the file.  Parser is a
\* field of the instance (this.Parser), not a binding.
BindingsInParseSQL == {"sql", "tokens", "parser", "QueryOptimizer", "CostModel",
                       "example", "VirtualDOM", "crypto", "fs", "path",
                       "validateUser", "sanitizeInput", "DatabaseHelper", "UserManager"}

\* parseSQL after its call of tokenize returned toks
parseSQL(toks) ==
    IF "Parser" \in BindingsInParseSQL THEN parse(toks) ELSE ReferenceError("Parser")

\* this.cache, this.executionPlans, this.histograms and this.correlations
\* after the constructor: empty Maps
EmptyMaps ==
    [cache |-> << >>, executionPlans |-> << >>, histograms |-> << >>,
     correlations |-> << >>]

NoOptimize ==
    /\ ast = Null /\ selected = <<>> /\ plan = Null /\ cost = Null /\ dp = << >>
    /\ given = Null /\ again = Null /\ caches = EmptyMaps
    /\ call = Null /\ returned = Null

Init ==
    /\ sql \in Queries
    /\ remaining = sql
    /\ position = 0
    /\ tokens = <<>>
    /\ pc = "tokenize"
    /\ parsed = Null
    /\ sqlResult = Null
    /\ \E c \in Catalogs : statistics = c.statistics /\ indexes = c.indexes
    /\ NoOptimize

\* one iteration of the while loop of tokenize
TokenizeStep ==
    /\ pc = "tokenize"
    /\ remaining # <<>>
    /\ LET it == TokenizeIteration(remaining, position)
       IN  /\ tokens' = tokens \o it.push
           /\ position' = position + it.len
           /\ remaining' = Slice(remaining, it.len)
    /\ UNCHANGED <<sql, pc, parsed, sqlResult, statistics, indexes, ast, selected,
                   plan, cost, dp,
                   given, again, caches, call, returned>>

\* the loop ends: return tokens
TokenizeReturn ==
    /\ pc = "tokenize"
    /\ remaining = <<>>
    /\ pc' = "tokens"
    /\ UNCHANGED <<sql, remaining, position, tokens, parsed, sqlResult, statistics,
                   indexes, ast, selected, plan, cost, dp,
                   given, again, caches, call, returned>>

\* the rest of parseSQL(sql)
ParseSQL ==
    /\ pc = "tokens"
    /\ sqlResult' = parseSQL(tokens)
    /\ pc' = "parseSQL"
    /\ UNCHANGED <<sql, remaining, position, tokens, parsed, statistics, indexes,
                   ast, selected, plan, cost, dp,
                   given, again, caches, call, returned>>

\* new optimizer.Parser(tokens).parse()
Parse ==
    /\ pc = "tokens"
    /\ parsed' = parse(tokens)
    /\ pc' = IF parse(tokens).kind = "ok" THEN "parsed" ELSE "parseFailed"
    /\ UNCHANGED <<sql, remaining, position, tokens, sqlResult, statistics, indexes,
                   ast, selected, plan, cost, dp,
                   given, again, caches, call, returned>>

\* optimize(ast), step 1
RewriteQuery ==
    /\ pc = "parsed"
    /\ IF foldConstantsThrows(parsed.node)
       THEN pc' = "threw" /\ UNCHANGED <<ast, given>>
       ELSE /\ pc' = "rewritten"
            /\ ast' = rewriteQuery(parsed.node)
            /\ given' = rewrittenInPlace(parsed.node)
    /\ UNCHANGED <<sql, remaining, position, tokens, parsed, sqlResult, statistics,
                   indexes, selected, plan, cost, dp, again, caches, call, returned>>

\* optimize(ast), step 2
OptimizeJoinOrder ==
    /\ pc = "rewritten"
    /\ ast' = optimizeJoinOrder(ast)
    /\ given' = optimizeJoinOrder(given)          \* ast.from = ... on the one object
    /\ dp' = joinOrderDp(ast)
    /\ pc' = "joined"
    /\ UNCHANGED <<sql, remaining, position, tokens, parsed, sqlResult, statistics,
                   indexes, selected, plan, cost, again, caches, call, returned>>

\* optimize(ast), step 3
FlattenSubqueries ==
    /\ pc = "joined"
    /\ ast' = flattenSubqueries(ast)
    /\ given' = flattenSubqueries(given)          \* ast.where = ... on the one object
    /\ pc' = "flattened"
    /\ UNCHANGED <<sql, remaining, position, tokens, parsed, sqlResult, statistics,
                   indexes, selected, plan, cost, dp, again, caches, call, returned>>

\* optimize(ast), step 4
PushDownPredicates ==
    /\ pc = "flattened"
    /\ ast' = pushDownPredicates(ast)
    /\ given' = pushDownPredicates(given)         \* ast.from = ... on the one object
    /\ pc' = "pushed"
    /\ UNCHANGED <<sql, remaining, position, tokens, parsed, sqlResult, statistics,
                   indexes, selected, plan, cost, dp, again, caches, call, returned>>

\* optimize(ast), step 5
SelectIndexes ==
    /\ pc = "pushed"
    /\ selected' = selectIndexes(ast)
    /\ pc' = "indexed"
    /\ UNCHANGED <<sql, remaining, position, tokens, parsed, sqlResult, statistics,
                   indexes, ast, plan, cost, dp,
                   given, again, caches, call, returned>>

\* optimize(ast), step 6
GenerateExecutionPlan ==
    /\ pc = "indexed"
    /\ plan' = generateExecutionPlan(ast, selected)
    /\ pc' = "planned"
    /\ UNCHANGED <<sql, remaining, position, tokens, parsed, sqlResult, statistics,
                   indexes, ast, selected, cost, dp,
                   given, again, caches, call, returned>>

\* optimize(ast), step 7 and the return of {ast, plan, cost, indexes}
\* step 7 with the plan kept in this.executionPlans under the query's text
EstimateCostCaching ==
    /\ pc = "planned"
    /\ IF estimateCostThrows(plan)
       THEN pc' = "threw" /\ UNCHANGED <<cost, caches>>
       ELSE /\ pc' = "done"
            /\ cost' = estimateCost(plan)
            /\ caches' = [caches EXCEPT !.executionPlans = <<[key |-> sql, plan |-> plan]>>]
    /\ UNCHANGED <<sql, remaining, position, tokens, parsed, sqlResult, statistics,
                   indexes, ast, selected, plan, dp,
                   given, again, call, returned>>

EstimateCost ==
    /\ pc = "planned"
    /\ IF estimateCostThrows(plan)
       THEN pc' = "threw" /\ UNCHANGED cost
       ELSE pc' = "done" /\ cost' = estimateCost(plan)
    /\ UNCHANGED <<sql, remaining, position, tokens, parsed, sqlResult, statistics,
                   indexes, ast, selected, plan, dp,
                   given, again, caches, call, returned>>

\* optimize(result.ast): a second call, on the AST that the first call
\* returned.  `ast`, `plan`, `cost` and `selected` keep what the first call
\* returned; `given` follows the one AST object, which the second call
\* writes again.
OptimizeAgain ==
    /\ pc = "done"
    /\ again' = optimize(ast)
    /\ given' = IF optimize(ast).kind = "ok" THEN optimize(ast).ast ELSE given
    /\ pc' = "again"
    /\ UNCHANGED <<sql, remaining, position, tokens, parsed, sqlResult, statistics,
                   indexes, ast, selected, plan, cost, dp, caches, call, returned>>

Next ==
    \/ TokenizeStep
    \/ TokenizeReturn
    \/ ParseSQL
    \/ Parse
    \/ RewriteQuery
    \/ OptimizeJoinOrder
    \/ FlattenSubqueries
    \/ PushDownPredicates
    \/ SelectIndexes
    \/ GenerateExecutionPlan
    \/ EstimateCost
    \/ OptimizeAgain

Spec == Init /\ [][Next]_vars

-----------------------------------------------------------------------------
(* Properties of the pipeline, checked under Spec *)

ClauseTypes == {"FILTER", "GROUP", "SORT", "LIMIT"}

\* the place of a plan node in the order source, Filter, Group, Sort, Limit
ClauseRank(type) ==
    IF type = "FILTER" THEN 1 ELSE IF type = "GROUP" THEN 2
    ELSE IF type = "SORT" THEN 3 ELSE IF type = "LIMIT" THEN 4 ELSE 0

RECURSIVE ClauseChain(_)
\* every clause node at or under `node` has exactly one child, which comes
\* before it in the clause order
ClauseChain(node) ==
    /\ node.type \in ClauseTypes =>
          /\ Len(node.children) = 1
          /\ ClauseRank(node.children[1].type) < ClauseRank(node.type)
    /\ \A i \in DOMAIN node.children : ClauseChain(node.children[i])

\* C1: in the plan generateExecutionPlan returns, each Filter, Group, Sort
\* and Limit node that is present has exactly one child, the plan built so
\* far; the QueryPlan root wraps one top operator, and this is the Limit node
\* when the query has a LIMIT.
C1_ClauseNodesFormChain ==
    pc \in {"planned", "done"} =>
        /\ ClauseChain(plan)
        /\ Len(plan.children) = 1
        /\ limitTruthy(ast.limit) => plan.children[1].type = "LIMIT"

\* the cost of a scan node of a table of `rows` rows: the row count for a
\* TableScan, ceil(log2(rows)) + rows * selectivity for an IndexScan
CostAsRows(node, rows) ==
    IF node.type = "TABLE_SCAN" THEN IntNum(rows)
    ELSE NumAdd(IntNum(CeilLog2(rows)),
                NumMul(IntNum(rows), indexesGet(node.index).selectivity))

RECURSIVE DefaultsApplied(_)
\* every scan at or under `node` of a table without statistics is costed and
\* sized as a table of DefaultRowCount rows, and every scan of a table
\* without a selected index is a TableScan
DefaultsApplied(node) ==
    /\ (node.type \in {"TABLE_SCAN", "INDEX_SCAN"} /\ node.table \notin DOMAIN statistics)
          => /\ estimatePlanCost(node) = CostAsRows(node, DefaultRowCount)
             /\ estimateCardinality(node) = IntNum(DefaultRowCount)
    /\ (node.type \in {"TABLE_SCAN", "INDEX_SCAN"} /\ findIndex(selected, node.table) = Undefined)
          => node.type = "TABLE_SCAN"
    /\ \A i \in DOMAIN node.children : DefaultsApplied(node.children[i])

\* C3: optimize raises on no AST the Parser returns, whatever the catalog;
\* its result has a plan and a numeric cost, in which a table absent from
\* statistics is costed and sized as 1000 rows and a table without a
\* selected index is read by a TableScan.
C3_OptimizeTotalWithDefaults ==
    /\ pc # "threw"
    /\ pc = "done" =>
          /\ plan # Null /\ cost # Null
          /\ DefaultsApplied(plan)

\* C4: on every token sequence that is not a complete statement of the
\* grammar parse fails with a parse error ("Expected ..., got ..." or
\* "Unexpected token: ..."): no AST is returned while tokens remain after
\* the last clause, and no other fault is raised where the input ends.
C4_NonStatementsFailDescriptively ==
    pc \in {"parsed", "parseFailed"} =>
        /\ sql \notin GrammaticalQueries => parsed.kind = "Error"
        /\ parsed.kind = "ok" => parsed.pos = Len(tokens)

\* C5: every statement of the grammar, whatever token it ends on, parses to
\* a Select AST of the whole statement; "SELECT a FROM t WHERE a = 1" gives
\* one Column in columns, one TableRef t in from and
\* where = BinaryOp(=, Column a, Literal 1).
C5_StatementsParse ==
    (pc \in {"parsed", "parseFailed"} /\ sql \in GrammaticalQueries) =>
        /\ parsed.kind = "ok"
        /\ parsed.pos = Len(tokens)
        /\ parsed.node.type = "SELECT"
        /\ sql = QWhere =>
              /\ parsed.node.columns = <<[type |-> "COLUMN", parts |-> <<<<"a">>>>]>>
              /\ parsed.node.from = <<[type |-> "TABLE", name |-> <<"t">>, alias |-> <<>>]>>
              /\ parsed.node.where =
                    BinaryOp(<<"=">>, [type |-> "COLUMN", parts |-> <<<<"a">>>>],
                             [type |-> "LITERAL", dataType |-> "NUMBER",
                              value |-> IntNum(1)])

\* The samples in which the parser requires a select-list expression
\* (QNoList, QOdd), an identifier (QNoTable) or the keyword FROM (QNoFrom,
\* QStringFrom) and the current token is a different one, with the 1-based
\* index of that token.
WrongToken ==
    (QNoList :> 2) @@ (QOdd :> 2) @@ (QNoTable :> 4) @@ (QNoFrom :> 3) @@ (QStringFrom :> 3)

\* C8: when the parser requires a select-list expression, an identifier or
\* a fixed keyword and the current token is a different token, parse fails
\* with a parse error that names this token; "SELECT FROM t" fails with an
\* error naming FROM.
C8_WrongTokenIsReported ==
    (pc \in {"parsed", "parseFailed"} /\ sql \in DOMAIN WrongToken) =>
        /\ parsed.kind = "Error"
        /\ parsed.got = tokens[WrongToken[sql]].value

\* C6: for every statement that Parser.parse accepts, parseSQL returns the
\* Select AST the Parser produces from tokenize(sql).
C6_ParseSQLReturnsParserAst ==
    (pc = "parseSQL" /\ parse(tokens).kind = "ok") => sqlResult = parse(tokens)

\* the token that starts at the 1-based place p of sql, if any
TokensAt(p) == {i \in DOMAIN tokens : tokens[i].position = p - 1}

\* the place p of sql lies inside the quotes of a STRING token
InString(p) ==
    \E i \in DOMAIN tokens :
        /\ tokens[i].type = "STRING"
        /\ tokens[i].position + 1 < p
        /\ p <= tokens[i].position + 1 + Len(tokens[i].value.s)

\* the tokens of "SELECT * FROM users" with the given type for the '*'
StarTokens(type) ==
    <<Token("KEYWORD", Str(<<"S","E","L","E","C","T">>), 0), Token(type, Str(<<"*">>), 7),
      Token("KEYWORD", Str(<<"F","R","O","M">>), 9), Token("IDENTIFIER", Str(<<"u","s","e","r","s">>), 14)>>

\* every '*' of sql outside a string literal starts a token of `type`
\* whose value is "*"
StarsAre(type) ==
    \A p \in DOMAIN sql :
        (sql[p] = "*" /\ ~InString(p)) =>
            \E i \in TokensAt(p) : tokens[i] = Token(type, Str(<<"*">>), p - 1)

\* C7 as stated: "SELECT * FROM users" gives KEYWORD(SELECT), SPECIAL(*),
\* KEYWORD(FROM), IDENTIFIER(users), and every '*' of the source is emitted
\* as a SPECIAL token.
C7_StarIsSpecial ==
    pc = "tokens" =>
        /\ sql = QStar => tokens = StarTokens("SPECIAL")
        /\ StarsAre("SPECIAL")

\* C7, amended: "SELECT * FROM users" gives KEYWORD(SELECT), OPERATOR(*),
\* KEYWORD(FROM), IDENTIFIER(users), and every '*' of the source outside a
\* string literal is emitted as an OPERATOR token.
C7_StarIsOperator ==
    pc = "tokens" =>
        /\ sql = QStar => tokens = StarTokens("OPERATOR")
        /\ StarsAre("OPERATOR")

C7_StarTokenized ==
    /\ pc = "tokens"
    /\ sql \in {QStar, QStarString, QThree}
    /\ \E p \in DOMAIN sql : sql[p] = "*"

ArithmeticOperators == {<<"+">>, <<"-">>, <<"*">>, <<"/">>}

\* a BinaryOp of + - * / on two Literals
Foldable(e) ==
    /\ e.type = "BINARY_OP"
    /\ e.operator \in ArithmeticOperators
    /\ e.left.type = "LITERAL"
    /\ e.right.type = "LITERAL"

RECURSIVE SomeFoldable(_)
\* some node of the expression e is Foldable
SomeFoldable(e) ==
    IF e.type = "BINARY_OP"
    THEN Foldable(e) \/ SomeFoldable(e.left) \/ SomeFoldable(e.right)
    ELSE IF e.type = "FUNCTION"
    THEN \E i \in DOMAIN e.arguments : SomeFoldable(e.arguments[i])
    ELSE FALSE

RECURSIVE SomeFoldableFrom(_)
\* some join condition at or under the from entry f has a Foldable node
SomeFoldableFrom(f) ==
    IF f.type = "JOIN"
    THEN \/ SomeFoldableFrom(f.left)
         \/ SomeFoldableFrom(f.right)
         \/ (f.condition # Null /\ SomeFoldable(f.condition))
    ELSE FALSE

\* some node of the Select AST a is Foldable
SomeFoldableIn(a) ==
    \/ \E i \in DOMAIN a.columns : SomeFoldable(a.columns[i])
    \/ \E i \in DOMAIN a.from : SomeFoldableFrom(a.from[i])
    \/ (a.where # Null /\ SomeFoldable(a.where))
    \/ \E i \in DOMAIN a.groupBy : SomeFoldable(a.groupBy[i])
    \/ (a.having # Null /\ SomeFoldable(a.having))
    \/ \E i \in DOMAIN a.orderBy : SomeFoldable(a.orderBy[i].expression)

\* C9: after rewriteQuery no BinaryOp of + - * / on two Literals remains in
\* the select list, the join conditions, where, group by, having, order by
\* or a function's arguments, and 2 + 3 has become the Literal 5.
C9_NoLiteralArithmeticRemains ==
    pc = "rewritten" =>
        /\ ~SomeFoldableIn(ast)
        /\ sql = QFold => ast.columns = <<Literal(IntNum(5))>>
        /\ sql = QThree => ast.where.right.left = Literal(IntNum(5))

C9_NestedArithmeticFolded ==
    /\ pc = "rewritten"
    /\ sql = QThree
    /\ SomeFoldableIn(parsed.node)
    /\ parsed.node.where.right.left.left.type = "BINARY_OP"

\* C10: for a query with exactly one table optimizeJoinOrder returns the
\* AST it was given, the from list and every other field unchanged.
C10_SingleTableNoOp ==
    [][(pc = "rewritten" /\ pc' = "joined" /\ Len(extractTables(ast.from)) = 1)
          => ast' = ast]_vars

C10_SingleTableJoined ==
    /\ pc = "joined"
    /\ Len(extractTables(ast.from)) = 1
    /\ ast.from[1].alias # <<>>

-----------------------------------------------------------------------------
(* optimizeJoinOrder on comma-separated FROM lists *)

\* the largest number of tables in the FROM list
MaxTables == 4

\* the row counts the statistics give a table
RowCounts == {0, 2, 3}

\* table i of the FROM list and its alias: "Ti ai"
TableName(i) == <<"T">> \o NatToString(i)
TableRefText(i) == TableName(i) \o <<" ", "a">> \o NatToString(i)

RECURSIVE TableListText(_)
TableListText(n) ==
    IF n = 1 THEN TableRefText(1)
    ELSE TableListText(n - 1) \o <<",", " ">> \o TableRefText(n)

\* "SELECT * FROM T1 a1, ..., Tn an"
JoinSql(n) == <<"S","E","L","E","C","T"," ","*"," ","F","R","O","M"," ">> \o TableListText(n)

\* optimize has rewritten the AST of a statement with a comma-separated
\* FROM list of 2..MaxTables tables; each table has a row count in the
\* statistics, except that T1 may have no entry.
InitJoin ==
    /\ \E n \in 2..MaxTables :
          /\ sql = JoinSql(n)
          /\ \E absent \in {{}, {1}} :
                statistics \in [{TableName(i) : i \in (1..n) \ absent}
                                  -> {Stats(r) : r \in RowCounts}]
    /\ remaining = <<>>
    /\ position = Len(sql)
    /\ tokens = tokenize(sql)
    /\ parsed = parse(tokens)
    /\ sqlResult = Null
    /\ indexes = <<>>
    /\ ast = rewriteQuery(parsed.node)
    /\ pc = "rewritten"
    /\ selected = <<>> /\ plan = Null /\ cost = Null /\ dp = << >>
    /\ given = rewrittenInPlace(parsed.node) /\ again = Null /\ caches = EmptyMaps
    /\ call = Null /\ returned = Null

NextJoin == OptimizeJoinOrder

SpecJoin == InitJoin /\ [][NextJoin]_vars

RECURSIVE JoinTrees(_)
\* the binary join trees whose leaves are the tables with the indexes in S
JoinTrees(S) ==
    IF Cardinality(S) = 1 THEN {[leaf |-> CHOOSE i \in S : TRUE]}
    ELSE UNION {{[left |-> l, right |-> r] : l \in JoinTrees(L), r \in JoinTrees(S \ L)} :
                   L \in (SUBSET S) \ {{}, S}}

IsLeaf(tree) == "leaf" \in DOMAIN tree

RECURSIVE LeftDeep(_)
LeftDeep(tree) == IsLeaf(tree) \/ (IsLeaf(tree.right) /\ LeftDeep(tree.left))

RECURSIVE TreeMask(_)
TreeMask(tree) ==
    IF IsLeaf(tree) THEN Pow2(tree.leaf - 1) ELSE TreeMask(tree.left) + TreeMask(tree.right)

\* cost and cardinality of the join of l and r with the estimate j
Joined(l, r, j) ==
    [cost |-> NumAdd(NumAdd(l.cost, r.cost), j.cost), cardinality |-> j.cardinality]

\* the join of the entries l and r over the tables of mask
JoinedOver(l, r, predicates, mask) ==
    Joined(l, r, estimateJoinCost(l, r, predicates, mask))

RECURSIVE TreeEntry(_, _, _)
\* cost (leaf scan costs plus join costs, as estimateJoinCost computes them)
\* and cardinality of a join tree over `tables`
TreeEntry(tree, tables, predicates) ==
    IF IsLeaf(tree)
    THEN [cost |-> getTableScanCost(tables[tree.leaf]),
          cardinality |-> getTableCardinality(tables[tree.leaf])]
    ELSE JoinedOver(TreeEntry(tree.left, tables, predicates),
                    TreeEntry(tree.right, tables, predicates),
                    predicates, TreeMask(tree))

\* the tables optimizeJoinOrder was given and their full mask
GivenTables == extractTables(parsed.node.from)
FullMask == Pow2(Len(GivenTables)) - 1
TreeCost(tree) == TreeEntry(tree, GivenTables, extractJoinPredicates(parsed.node)).cost

RECURSIVE SetMask(_)
\* the mask of the tables with the indexes in S
SetMask(S) ==
    IF S = {} THEN 0
    ELSE LET i == CHOOSE j \in S : TRUE IN Pow2(i - 1) + SetMask(S \ {i})

RECURSIVE TreeEntries(_, _, _)
\* the entries (cost and cardinality) of all the binary join trees whose
\* leaves are the tables with the indexes in S
TreeEntries(S, tables, predicates) ==
    IF Cardinality(S) = 1
    THEN {TreeEntry([leaf |-> CHOOSE i \in S : TRUE], tables, predicates)}
    ELSE UNION {{JoinedOver(l, r, predicates, SetMask(S)) :
                     l \in TreeEntries(L, tables, predicates),
                     r \in TreeEntries(S \ L, tables, predicates)} :
                   L \in (SUBSET S) \ {{}, S}}

\* the costs of all the binary join trees on the given tables
TreeCosts ==
    {e.cost : e \in TreeEntries(DOMAIN GivenTables, GivenTables,
                                extractJoinPredicates(parsed.node))}

-----------------------------------------------------------------------------
(* A second call of optimize, checked under Spec *)

\* the plan of the from clause in a QUERY_PLAN: its first child when the
\* AST has a from entry
FromPlan(a, p) == IF a.from # <<>> THEN <<p.children[1]>> ELSE <<>>

\* C11: optimize on the AST that a previous optimize returned leaves from
\* as it is, and with it the join shape and the join methods of the
\* generated plan.
C11_SecondOptimizeKeepsJoins ==
    pc = "again" =>
        /\ again.kind = "ok"
        /\ again.ast.from = ast.from
        /\ FromPlan(again.ast, again.plan) = FromPlan(ast, plan)

\* a second call on an AST whose from the first call replaced by the join
\* tree of the DP
C11_SecondCallOnJoinTree ==
    /\ pc = "again"
    /\ dp # << >>
    /\ Len(ast.from) = 1
    /\ ast.from[1].type = "JOIN"
    /\ "method" \in DOMAIN ast.from[1]

-----------------------------------------------------------------------------
(* selectIndexes, checked under Spec *)

\* the places of the candidate indexes on the table named T
CandidatesOn(T) == {i \in DOMAIN indexes : indexes[i].table = T}

\* baseTableScanCost * index.selectivity for an index on the table named T
ScanTimesSelectivity(T, index) ==
    NumMul(getTableScanCost([name |-> T]), index.selectivity)

\* the selected indexes on the table named T are right: when a candidate
\* costs strictly less than the table scan, an index is selected and every
\* one selected is a candidate of the smallest cost; otherwise none is.
RightIndexesFor(T) ==
    IF \E i \in CandidatesOn(T) :
          NumLt(ScanTimesSelectivity(T, indexes[i]), getTableScanCost([name |-> T]))
    THEN /\ \E j \in DOMAIN selected : selected[j].table = T
         /\ \A j \in DOMAIN selected :
               selected[j].table = T =>
                  /\ \E i \in CandidatesOn(T) : indexes[i] = selected[j]
                  /\ \A i \in CandidatesOn(T) :
                        NumLe(ScanTimesSelectivity(T, selected[j]),
                              ScanTimesSelectivity(T, indexes[i]))
    ELSE \A j \in DOMAIN selected : selected[j].table # T

\* C12: for each table of the query selectIndexes returns the candidate
\* index of the smallest cost baseTableScanCost * selectivity, for every
\* selectivity in [0,1], when this cost is strictly below the cost of the
\* table scan, and no index for the table otherwise; a table of 100000 rows
\* with an index of selectivity 0.00001 gets this index.
C12_CheapestIndexPerTable ==
    pc = "indexed" =>
        /\ \A k \in DOMAIN extractTables(ast.from) :
              RightIndexesFor(extractTables(ast.from)[k].name)
        /\ (sql = QEndToEnd /\ indexes = ExampleCatalog.indexes) =>
              \E j \in DOMAIN selected : selected[j] = ExampleCatalog.indexes[1]

-----------------------------------------------------------------------------
(* the returned cost, checked under Spec *)

\* a finite number that is not negative
FiniteNonNegative(x) == x.t = "number" /\ IsFinite(x) /\ x.n >= 0

-----------------------------------------------------------------------------
(* The cost of a returned plan while the statistics grow, checked under
   SpecStats: after optimize has returned, the caller raises the rowCount of
   one table with statistics.set and costs the same plan tree again. *)

\* the largest row count that a table is raised to
MaxRowCount == 9

\* statistics.set(name, {rowCount: r}) with r above the present rowCount of
\* the table, after optimize has returned or the plan was costed again;
\* `cost` keeps the cost of the plan under the statistics before the raise
RaiseRowCount ==
    /\ pc \in {"done", "costed"}
    /\ \E name \in DOMAIN statistics : \E r \in 1..MaxRowCount :
          /\ statistics[name].rowCount.n < r
          /\ statistics' = [statistics EXCEPT ![name] = Stats(r)]
    /\ pc' = "raised"
    /\ UNCHANGED <<sql, remaining, position, tokens, parsed, sqlResult,
                   indexes, ast, selected, plan, cost, dp, given, again, caches, call, returned>>

\* estimatePlanCost(plan) on the plan that optimize returned, under the
\* raised statistics
CostAgain ==
    /\ pc = "raised"
    /\ cost' = estimatePlanCost(plan)
    /\ pc' = "costed"
    /\ UNCHANGED <<sql, remaining, position, tokens, parsed, sqlResult, statistics,
                   indexes, ast, selected, plan, dp, given, again, caches, call, returned>>

NextStats == Next \/ RaiseRowCount \/ CostAgain

SpecStats == Init /\ [][NextStats]_vars

\* C14: for a fixed plan tree, raising the rowCount of one table never makes
\* estimatePlanCost of the tree smaller: after a raise the tree costs at
\* least what it cost under the statistics before the raise.
C14_CostMonotoneInRowCount ==
    pc = "raised" => NumLe(cost, estimatePlanCost(plan))

\* the plan has been costed again after a table that it reads through a
\* selected index was raised to the largest row count
C14_IndexedTableRaised ==
    /\ pc = "raised"
    /\ \E i \in DOMAIN selected :
          /\ selected[i].table \in DOMAIN statistics
          /\ statistics[selected[i].table].rowCount.n = MaxRowCount

-----------------------------------------------------------------------------
(* The optimizer instance across optimize, checked under Spec *)

\* C15: optimize and its phases write no state of the optimizer instance:
\* statistics, indexes, cache, executionPlans, histograms and correlations
\* are after every step what they were before it; and what optimize returns
\* is the value that the AST, the statistics and the indexes determine.
C15_OptimizeWritesNoInstanceState ==
    /\ [][statistics' = statistics /\ indexes' = indexes /\ caches' = caches]_vars
    /\ [](pc = "done" =>
             optimize(parsed.node) = [kind |-> "ok", ast |-> ast, plan |-> plan,
                                      cost |-> cost, indexes |-> selected])

\* optimize has returned a plan that reads a table through a selected index
\* of a catalog that is not empty
C15_ReturnedWithCatalog ==
    /\ pc = "done"
    /\ DOMAIN statistics # {}
    /\ selected # << >>
    /\ caches = EmptyMaps

-----------------------------------------------------------------------------
(* The caller's AST object across rewriteQuery, checked under Spec *)

\* C16: rewriteQuery is pure: the AST object passed in, and every node
\* reachable from it, has the same fields and children after the call as
\* before it.
C16_RewriteLeavesInputIntact ==
    pc = "rewritten" => given = parsed.node

-----------------------------------------------------------------------------
(* optimizeJoinOrder on FROM lists and JOIN chains, checked under Spec *)

RECURSIVE JoinsCarryMethod(_)
\* every join node of the tree has a `method`
JoinsCarryMethod(node) ==
    node.type = "JOIN" =>
        /\ "method" \in DOMAIN node
        /\ JoinsCarryMethod(node.left)
        /\ JoinsCarryMethod(node.right)

\* C17: for a query over n >= 2 base tables, written as a comma-separated
\* FROM list or as a left-deep JOIN ... ON chain, optimizeJoinOrder runs the
\* dynamic program and replaces from with the join tree of the full mask,
\* each join node of it carrying the method the dynamic program chose.
C17_JoinOrderRunsForJoinChains ==
    (pc = "joined" /\ Len(GivenTables) >= 2) =>
        /\ FullMask \in DOMAIN dp
        /\ ast.from = <<dp[FullMask].plan>>
        /\ JoinsCarryMethod(ast.from[1])

-----------------------------------------------------------------------------
(* The plan nodes of the joins of the dynamic program, checked under Spec *)

RECURSIVE DpJoinsLowered(_, _)
\* `node` is the plan of the from entry `from`, and each nested-loop join
\* of the dynamic program in `from` has a NESTED_LOOP_JOIN plan node whose
\* cost is cost(left) + cost(right) + card(left) * card(right)
DpJoinsLowered(from, node) ==
    (from.type = "JOIN" /\ "method" \in DOMAIN from) =>
        /\ from.method = "NESTED_LOOP" =>
              /\ node.type = "NESTED_LOOP_JOIN"
              /\ estimatePlanCost(node) =
                    NumAdd(NumAdd(estimatePlanCost(child(node, 0)),
                                  estimatePlanCost(child(node, 1))),
                           NumMul(estimateCardinality(child(node, 0)),
                                  estimateCardinality(child(node, 1))))
        /\ DpJoinsLowered(from.left, child(node, 0))
        /\ DpJoinsLowered(from.right, child(node, 1))

\* C18: every join that the dynamic program builds as a nested loop is
\* lowered by generateExecutionPlan to a NestedLoopJoin plan node that
\* estimatePlanCost and estimateCardinality recognise, so that its cost is
\* cost(left) + cost(right) + card(left) * card(right).
C18_DpNestedLoopsLowered ==
    (pc = "done" /\ dp # << >>) => DpJoinsLowered(ast.from[1], child(plan, 0))

-----------------------------------------------------------------------------
(* The join predicates of the dynamic program, checked under Spec *)

\* the names by which the query's predicates refer to the tables under a
\* from entry: a table's alias, or its name when it has none
Qualifiers(node) ==
    {IF extractNode(node)[i].alias # <<>> THEN extractNode(node)[i].alias
     ELSE extractNode(node)[i].name : i \in DOMAIN extractNode(node)}

\* the conjuncts of the query's WHERE that connect the two sides of a join:
\* they refer to tables of both sides and to no other table
ConnectingPredicates(a, left, right) ==
    SelectSeq(extractPredicates(a.where),
              LAMBDA p : /\ getPredicateTables(p) \cap Qualifiers(left) # {}
                         /\ getPredicateTables(p) \cap Qualifiers(right) # {}
                         /\ getPredicateTables(p) \subseteq
                               (Qualifiers(left) \cup Qualifiers(right)))

RECURSIVE ConnectedCardinality(_, _)
\* the cardinality of a join tree when each join keeps left * right * the
\* product of the selectivities of its connecting predicates
ConnectedCardinality(a, node) ==
    IF node.type = "JOIN"
    THEN NumMul(NumMul(ConnectedCardinality(a, node.left),
                       ConnectedCardinality(a, node.right)),
                estimateSelectivity(ConnectingPredicates(a, node.left, node.right)))
    ELSE getTableCardinality(node)

RECURSIVE JoinsUseConnecting(_, _)
\* each join of the tree holds its connecting predicates, and is a hash
\* join when one of them is an equality and left + right < left * right
JoinsUseConnecting(a, node) ==
    node.type = "JOIN" =>
        /\ node.predicates = ConnectingPredicates(a, node.left, node.right)
        /\ ( /\ \E i \in DOMAIN ConnectingPredicates(a, node.left, node.right) :
                   operatorOf(ConnectingPredicates(a, node.left, node.right)[i]) = <<"=">>
             /\ NumLt(NumAdd(ConnectedCardinality(a, node.left),
                             ConnectedCardinality(a, node.right)),
                      NumMul(ConnectedCardinality(a, node.left),
                             ConnectedCardinality(a, node.right))) )
           => node.method = "HASH_JOIN"
        /\ JoinsUseConnecting(a, node.left)
        /\ JoinsUseConnecting(a, node.right)

\* C19: the predicates that the dynamic program applies to a join are
\* exactly the query's join predicates that connect the pair being joined;
\* the join's cardinality is left * right * the product of their
\* selectivities; and an equality among them makes a hash join a candidate.
C19_DpUsesConnectingPredicates ==
    (pc = "joined" /\ dp # << >>) =>
        /\ JoinsUseConnecting(ast, dp[FullMask].plan)
        /\ dp[FullMask].cardinality = ConnectedCardinality(ast, dp[FullMask].plan)

-----------------------------------------------------------------------------
(* pushDownPredicates, checked under Spec *)

\* the conjunct p is attached to the table reference T of the from list
AttachedTo(p, T) ==
    "predicates" \in DOMAIN T /\ \E j \in DOMAIN T.predicates : T.predicates[j] = p

\* the conjunct p is where it belongs: on the table it refers to when that
\* is its only table, and on no table when it refers to several
RightlyPushed(p, from) ==
    \A k \in DOMAIN extractTables(from) :
        /\ getPredicateTables(p) = Qualifiers(extractTables(from)[k])
              => AttachedTo(p, extractTables(from)[k])
        /\ Cardinality(getPredicateTables(p)) > 1
              => ~AttachedTo(p, extractTables(from)[k])

\* C20: pushDownPredicates splits WHERE into its top-level AND conjuncts and
\* attaches every conjunct that refers to exactly one table to the scan of
\* that table in the from it returns; a conjunct that refers to several
\* tables is attached to none.
C20_SingleTableConjunctsAttached ==
    pc = "pushed" =>
        \A i \in DOMAIN extractPredicates(ast.where) :
            RightlyPushed(extractPredicates(ast.where)[i], ast.from)

-----------------------------------------------------------------------------
(* The splits that the dynamic program costs, checked under SpecJoin *)

RECURSIVE costedSplits(_, _, _)
\* the values of `subset`, from `subset` on, for which the split loop of
\* `mask` reaches estimateJoinCost: those that are not skipped and whose
\* two entries are in dp
costedSplits(subset, mask, d) ==
    IF subset <= 0 THEN << >>
    ELSE (IF \/ SkipSplit(subset, BitXor(mask, subset))
             \/ dpGet(d, subset) = Undefined
             \/ dpGet(d, BitXor(mask, subset)) = Undefined
          THEN << >> ELSE <<subset>>)
         \o costedSplits(BitAnd(subset - 1, mask), mask, d)

\* the mask of the tables that are the leaves of a from entry
LeafMask(node) ==
    SetMask({i \in DOMAIN GivenTables :
                \E k \in DOMAIN extractNode(node) : extractNode(node)[k] = GivenTables[i]})

\* the masks of two or more tables
JoinMasks == {mask \in 1..FullMask : PopCount(mask) >= 2}

\* the non-empty proper sub-masks of mask
SubMasks(mask) == {s \in 1..(mask - 1) : BitAnd(s, mask) = s}

\* each unordered bipartition of mask is costed exactly once
EachSplitCostedOnce(mask) ==
    \A s \in SubMasks(mask) :
        Cardinality({i \in DOMAIN costedSplits(mask, mask, dp) :
                        costedSplits(mask, mask, dp)[i] \in {s, BitXor(mask, s)}}) = 1

-----------------------------------------------------------------------------
(* estimateJoinCost called directly, checked under SpecJoinCost *)

\* a column reference table.column, as the parser builds it
ColumnRef(table, column) == [type |-> "COLUMN", parts |-> <<table, column>>]

\* equality predicates as estimateJoinCost recognises them (type EQUALITY),
\* over columns with and without an index in SmallCatalog, and the equality
\* that the parser builds for x.id = y.id
EqualityIndexed ==
    [type |-> "EQUALITY", left |-> ColumnRef(<<"s">>, <<"a">>),
     right |-> ColumnRef(<<"t">>, <<"a">>)]
EqualityPlain ==
    [type |-> "EQUALITY", left |-> ColumnRef(<<"x">>, <<"i","d">>),
     right |-> ColumnRef(<<"y">>, <<"i","d">>)]
EqualityParsed ==
    [type |-> "BINARY_OP", operator |-> <<"=">>, left |-> ColumnRef(<<"x">>, <<"i","d">>),
     right |-> ColumnRef(<<"y">>, <<"i","d">>)]

\* the predicate lists and the cardinalities that estimateJoinCost is given
JoinPredicateLists ==
    {<< >>, <<EqualityIndexed>>, <<EqualityPlain>>, <<EqualityParsed>>,
     <<EqualityParsed, EqualityPlain>>}
JoinCardinalities == {0, 1, 2, 3, 1000}

\* a dp entry of the given cardinality
EntryOf(c) ==
    [cost |-> IntNum(c), plan |-> [type |-> "TABLE", name |-> <<"t">>, alias |-> << >>],
     cardinality |-> IntNum(c)]

InitJoinCost ==
    /\ sql = << >> /\ remaining = << >> /\ position = 0 /\ tokens = << >>
    /\ parsed = Null /\ sqlResult = Null
    /\ \E c \in Catalogs : statistics = c.statistics /\ indexes = c.indexes
    /\ ast = Null /\ selected = << >> /\ plan = Null /\ cost = Null /\ dp = << >>
    /\ given = Null /\ again = Null /\ caches = EmptyMaps
    /\ pc = "call"
    /\ \E l \in JoinCardinalities, r \in JoinCardinalities, ps \in JoinPredicateLists :
          call = [method |-> "estimateJoinCost", left |-> EntryOf(l), right |-> EntryOf(r),
                  predicates |-> ps, mask |-> 3]
    /\ returned = Null

\* optimizer.estimateJoinCost(left, right, predicates, mask)
EstimateJoinCostCall ==
    /\ pc = "call"
    /\ call.method = "estimateJoinCost"
    /\ returned' = estimateJoinCost(call.left, call.right, call.predicates, call.mask)
    /\ pc' = "returned"
    /\ UNCHANGED <<sql, remaining, position, tokens, parsed, sqlResult, statistics,
                   indexes, ast, selected, plan, cost, dp, given, again, caches, call>>

NextJoinCost == EstimateJoinCostCall

SpecJoinCost == InitJoinCost /\ [][NextJoinCost]_vars

\* the column has an index in the catalog
ColumnIndexed(column) ==
    /\ column.type = "COLUMN" /\ Len(column.parts) > 1
    /\ \E i \in DOMAIN indexes :
          /\ indexes[i].table = column.parts[1]
          /\ \E j \in DOMAIN indexes[i].columns : indexes[i].columns[j] = column.parts[2]

IsEqualityPredicate(p) == "type" \in DOMAIN p /\ p.type = "EQUALITY"

\* the applicable strategies in the order nested loop, hash, merge
Strategies(l, r, predicates) ==
    <<[method |-> "NESTED_LOOP", cost |-> NumMul(l, r)]>>
    \o (IF \E i \in DOMAIN predicates : IsEqualityPredicate(predicates[i])
        THEN <<[method |-> "HASH_JOIN", cost |-> NumAdd(l, r)]>> ELSE << >>)
    \o (IF \E i \in DOMAIN predicates :
              /\ IsEqualityPredicate(predicates[i])
              /\ ColumnIndexed(predicates[i].left) /\ ColumnIndexed(predicates[i].right)
        THEN <<[method |-> "MERGE_JOIN", cost |-> mergeCostOf(l, r)]>> ELSE << >>)

\* the first of the strategies that no strategy is strictly cheaper than
Cheapest(strategies) ==
    strategies[CHOOSE i \in DOMAIN strategies :
                  /\ \A j \in DOMAIN strategies : ~NumLt(strategies[j].cost, strategies[i].cost)
                  /\ \A k \in 1..(i - 1) :
                        \E j \in DOMAIN strategies : NumLt(strategies[j].cost, strategies[k].cost)]

\* C22: estimateJoinCost returns the cheapest applicable strategy for the
\* given cardinalities and predicates: nested loop (leftCard * rightCard)
\* is always applicable, hash join (leftCard + rightCard) when some
\* applicable predicate is an equality, merge join when both join columns
\* are indexed; of two applicable strategies of equal cost the one earlier
\* in the order nested loop, hash, merge is returned.
C22_CheapestApplicableStrategy ==
    (pc = "returned" /\ call.method = "estimateJoinCost") =>
        /\ returned.method =
              Cheapest(Strategies(call.left.cardinality, call.right.cardinality,
                                  call.predicates)).method
        /\ returned.cost =
              Cheapest(Strategies(call.left.cardinality, call.right.cardinality,
                                  call.predicates)).cost

-----------------------------------------------------------------------------
(* CostModel *)

\* constructor
cpuCostPerTuple == Num(1, 100)
ioCostPerPage == IntNum(1)
hashTableBuildCost == Num(1, 10)
sortCostFactor == Num(1, 20)

\* calculateCost(operation, inputSize, parameters), inputSize an integer >= 0
calculateCost(operation, inputSize, parameters) ==
    IF operation = "TABLE_SCAN" THEN NumMul(inputSize, ioCostPerPage)
    ELSE IF operation = "INDEX_SCAN"
    THEN NumAdd(NumMul(IF inputSize.n = 0 THEN NegInfinity
                       ELSE IntNum(CeilLog2(inputSize.n)),
                       ioCostPerPage),
                NumMul(NumMul(inputSize, parameters.selectivity), cpuCostPerTuple))
    ELSE IF operation = "NESTED_LOOP_JOIN"
    THEN NumMul(NumMul(parameters.outerSize, parameters.innerSize), cpuCostPerTuple)
    ELSE IF operation = "HASH_JOIN"
    THEN NumAdd(NumMul(NumAdd(parameters.outerSize, parameters.innerSize), cpuCostPerTuple),
                NumMul(parameters.innerSize, hashTableBuildCost))
    ELSE IF operation = "SORT"
    THEN NumMul(NumMul(inputSize, log2(inputSize)), sortCostFactor)
    ELSE NumMul(inputSize, cpuCostPerTuple)

-----------------------------------------------------------------------------
(* The nodes of the returned plan, checked under Spec *)

RECURSIVE PlanNodes(_)
\* the node and the nodes below it
PlanNodes(node) ==
    {node} \cup UNION {PlanNodes(node.children[i]) : i \in DOMAIN node.children}

\* an INDEX_SCAN node on a table with statistics and with its index in the
\* catalog
KnownIndexScan(node) ==
    /\ node.type = "INDEX_SCAN"
    /\ statisticsGet(node.table) # Undefined
    /\ indexesGet(node.index) # Undefined

\* C23: for an IndexScan plan node on a table with known statistics and a
\* catalogued index, estimatePlanCost equals ceil(log2(rowCount)) *
\* ioCostPerPage + rowCount * selectivity * cpuCostPerTuple with the cost
\* model's constants 1.0 and 0.01: the value that
\* CostModel.calculateCost('INDEX_SCAN', rowCount, {selectivity}) gives.
C23_IndexScanCostIsCostModel ==
    pc = "done" =>
        \A node \in PlanNodes(plan) :
            KnownIndexScan(node) =>
                estimatePlanCost(node) =
                    calculateCost("INDEX_SCAN", statisticsGet(node.table).rowCount,
                                  [selectivity |-> indexesGet(node.index).selectivity])


\* C24: estimateCardinality returns the row count of the table's statistics
\* (1000 when the table has none) for every base-table plan node, TableScan
\* and IndexScan alike, so that a join over an index-scanned table is sized
\* from the row count of that table.
C24_BaseTableNodesSizedByRowCount ==
    pc = "done" =>
        \A node \in PlanNodes(plan) :
            node.type \in {"TABLE_SCAN", "INDEX_SCAN"} =>
                estimateCardinality(node) = getTableCardinality([name |-> node.table])


\* the product of the selectivities of the top-level AND conjuncts of a
\* predicate
ConjunctSelectivity(predicate) == estimateSelectivity(extractPredicates(predicate))

\* C25: the selectivities of ANDed predicates multiply: the estimated
\* cardinality of a Filter node whose predicate is the conjunction that the
\* parser builds for WHERE p1 AND p2 is the input cardinality times
\* selectivity(p1) times selectivity(p2), 0.1 * 0.1 for two equalities; and
\* so for a join whose ON condition is a conjunction.
C25_ConjunctSelectivitiesMultiply ==
    pc = "done" =>
        \A node \in PlanNodes(plan) :
            /\ node.type = "FILTER" =>
                  estimateCardinality(node) =
                      NumMul(estimateCardinality(child(node, 0)),
                             ConjunctSelectivity(node.predicate))
            /\ ( /\ node.type \in {"NESTED_LOOP_JOIN", "HASH_JOIN"}
                 /\ node.condition # Undefined /\ node.condition # Null )
               => estimateCardinality(node) =
                      NumMul(NumMul(estimateCardinality(child(node, 0)),
                                    estimateCardinality(child(node, 1))),
                             ConjunctSelectivity(node.condition))


\* the plan has a node of the type directly under its root
HasClauseNode(type) == \E i \in DOMAIN plan.children : plan.children[i].type = type

\* C26: for every parsed query with a LIMIT clause, whatever its count (0
\* included), the generated plan contains a Limit node carrying that
\* count; and a Filter, Group or Sort node is present exactly when the
\* query has a WHERE, GROUP BY or ORDER BY clause.
C26_ClauseNodesMatchClauses ==
    pc = "planned" =>
        /\ ast.limit # Null =>
              \E i \in DOMAIN plan.children :
                  plan.children[i].type = "LIMIT" /\ plan.children[i].count = ast.limit
        /\ HasClauseNode("FILTER") <=> ast.where # Null
        /\ HasClauseNode("GROUP") <=> ast.groupBy # << >>
        /\ HasClauseNode("SORT") <=> ast.orderBy # << >>

-----------------------------------------------------------------------------
(* tokenize on every short input, checked under SpecTokenize *)

\* the longest input and the characters of the inputs: a letter, a digit,
\* the dot, the quote, the space, characters of the operators and two
\* characters that no rule but the last matches alone
MaxSqlLen == 3
TokenAlphabet == {"a", "1", ".", "'", " ", "<", "=", "#", "|"}
SqlTexts == UNION {[1..n -> TokenAlphabet] : n \in 0..MaxSqlLen}

InitTokenize ==
    /\ sql \in SqlTexts \cup Queries
    /\ remaining = sql
    /\ position = 0
    /\ tokens = << >>
    /\ pc = "tokenize"
    /\ parsed = Null
    /\ sqlResult = Null
    /\ statistics = EmptyCatalog.statistics /\ indexes = EmptyCatalog.indexes
    /\ NoOptimize

NextTokenize == TokenizeStep \/ TokenizeReturn

\* the loop is sequential code: it keeps running until it returns
SpecTokenize == InitTokenize /\ [][NextTokenize]_vars /\ WF_vars(NextTokenize)

\* the character of the input at which the token starts is the first
\* character of the token
StartsAtPosition(token) ==
    /\ token.position \in 0..(Len(sql) - 1)
    /\ CASE token.type = "STRING" -> sql[token.position + 1] = "'"
         [] token.type = "NUMBER" -> sql[token.position + 1] \in Digits
         [] token.type = "KEYWORD" ->
               UpperChar(sql[token.position + 1]) = token.value.s[1]
         [] OTHER -> sql[token.position + 1] = token.value.s[1]

\* the next character starts no whitespace, string literal, number,
\* operator or identifier
NoRuleStartsWith(s) ==
    /\ s[1] \notin WhitespaceChars \cup Digits \cup IdStartChars
    /\ s[1] = "'" => \A j \in 2..Len(s) : s[j] # "'"
    /\ s[1] \notin {"=", "<", ">", "+", "-", "*", "/", "%"}
    /\ s[1] = "!" => (Len(s) < 2 \/ s[2] # "=")
    /\ s[1] = "|" => (Len(s) < 2 \/ s[2] # "|")
    /\ s[1] = "&" => (Len(s) < 2 \/ s[2] # "&")

\* C27: tokenize terminates for every input string and never raises: each
\* iteration of the loop consumes at least one character, position +
\* length(remaining) is the length of the input throughout, the position of
\* each token is the offset of its first character, and a character that no
\* earlier rule matches, an unmatched quote included, becomes a SPECIAL
\* token of one character.
C27_TokenizeTerminates ==
    /\ <>(pc = "tokens")
    /\ [](pc \in {"tokenize", "tokens"})
    /\ [](position + Len(remaining) = Len(sql))
    /\ [][pc' = "tokenize" => Len(remaining') < Len(remaining)]_vars
    /\ [](\A i \in DOMAIN tokens :
             /\ StartsAtPosition(tokens[i])
             /\ i > 1 => tokens[i - 1].position < tokens[i].position)
    /\ [][(pc = "tokenize" /\ remaining # << >> /\ NoRuleStartsWith(remaining))
             => /\ tokens' = Append(tokens, Token("SPECIAL", Str(<<remaining[1]>>), position))
                /\ remaining' = Tail(remaining)]_vars

\* tokenize has returned for an input that starts with a quote that is
\* never closed: the quote is a SPECIAL token and the text after it was
\* tokenized
C27_UnmatchedQuoteTokenized ==
    /\ pc = "tokens"
    /\ Len(tokens) >= 2
    /\ tokens[1] = Token("SPECIAL", Str(<<"'">>), 0)
    /\ position = Len(sql)

-----------------------------------------------------------------------------
(* The ON conditions across optimizeJoinOrder, checked under Spec *)

RECURSIVE ConditionsUnder(_)
\* the ON conditions and join predicates attached to the join nodes of a
\* from entry
ConditionsUnder(node) ==
    IF node.type = "JOIN"
    THEN (IF "condition" \in DOMAIN node /\ node.condition # Null
          THEN {node.condition} ELSE {})
         \cup (IF "predicates" \in DOMAIN node
               THEN {node.predicates[i] : i \in DOMAIN node.predicates} ELSE {})
         \cup ConditionsUnder(node.left) \cup ConditionsUnder(node.right)
    ELSE {}

\* those of a from list
ConditionsOf(from) == UNION {ConditionsUnder(from[i]) : i \in DOMAIN from}

\* the conditions of the join nodes of a plan
PlanConditions(p) ==
    {node.condition : node \in {m \in PlanNodes(p) :
                                   /\ "condition" \in DOMAIN m
                                   /\ m.condition # Undefined /\ m.condition # Null}}

\* C28: when optimizeJoinOrder replaces from with the join tree of the
\* dynamic program no join condition is lost: every ON condition of a join
\* node of the original from is attached to some join node of the new tree,
\* and is the condition of a join node of the generated plan.
C28_JoinConditionsKept ==
    /\ (pc = "joined" /\ dp # << >>) =>
          ConditionsOf(rewriteQuery(parsed.node).from) \subseteq ConditionsOf(ast.from)
    /\ (pc = "planned" /\ dp # << >>) =>
          ConditionsOf(rewriteQuery(parsed.node).from) \subseteq PlanConditions(plan)


-----------------------------------------------------------------------------
(* C29: an index is selected only where it is estimated cheaper *)

\* the TABLE_SCAN plan node generateFromPlan builds for the table of node
TableScanOf(node) ==
    [type |-> "TABLE_SCAN", table |-> node.table, children |-> << >>]

\* the statistics give the table of node a positive row count and the
\* catalog gives its index a selectivity in [0, 1]
PositiveRowCount(node) ==
    LET stats == statisticsGet(node.table)
        selectivity == indexesGet(node.index).selectivity
    IN  /\ stats.rowCount.d = 1 /\ stats.rowCount.n > 0
        /\ NumLe(IntNum(0), selectivity) /\ NumLe(selectivity, IntNum(1))

\* C29: for every table with a positive row count for which selectIndexes
\* selected an index (of selectivity in [0, 1]), estimatePlanCost gives the
\* INDEX_SCAN node of the plan a cost not greater than the cost it gives a
\* TABLE_SCAN node of the same table.
C29_IndexScanNotDearerThanTableScan ==
    pc = "done" =>
        \A node \in PlanNodes(plan) :
            (KnownIndexScan(node) /\ PositiveRowCount(node))
                => NumLe(estimatePlanCost(node), estimatePlanCost(TableScanOf(node)))


-----------------------------------------------------------------------------
(* C30: the dynamic program has an entry for every set of tables *)

\* optimize has rewritten the AST of a statement with a comma-separated
\* FROM list of 2..MaxTables tables, as in InitJoin; the row count the
\* statistics give a table is one of RowCounts or the number Infinity.
InitJoinUnbounded ==
    /\ \E n \in 2..MaxTables :
          /\ sql = JoinSql(n)
          /\ statistics \in [{TableName(i) : i \in 1..n}
                               -> {Stats(r) : r \in RowCounts} \cup {[rowCount |-> Infinity]}]
    /\ remaining = <<>>
    /\ position = Len(sql)
    /\ tokens = tokenize(sql)
    /\ parsed = parse(tokens)
    /\ sqlResult = Null
    /\ indexes = <<>>
    /\ ast = rewriteQuery(parsed.node)
    /\ pc = "rewritten"
    /\ selected = <<>> /\ plan = Null /\ cost = Null /\ dp = << >>
    /\ given = rewrittenInPlace(parsed.node) /\ again = Null /\ caches = EmptyMaps
    /\ call = Null /\ returned = Null

SpecJoinUnbounded == InitJoinUnbounded /\ [][NextJoin]_vars

RECURSIVE DpAfter(_)
\* dp after the round of size k (after the initialisation for k = 1)
DpAfter(k) ==
    IF k <= 1 THEN dpInit(GivenTables)
    ELSE dpMasks(DpAfter(k - 1), generateCombinations(Len(GivenTables), k),
                 extractJoinPredicates(ast))

\* the positions in the FROM list of the tables of mask
TablesOf(mask) == {i \in DOMAIN GivenTables : BitAnd(mask, Pow2(i - 1)) # 0}

\* leaves holds the tables of mask, each as often as mask has it
ExactlyTheTables(leaves, mask) ==
    /\ Len(leaves) = Cardinality(TablesOf(mask))
    /\ \A i \in TablesOf(mask) :
          Cardinality({k \in DOMAIN leaves : leaves[k] = GivenTables[i]})
             = Cardinality({j \in TablesOf(mask) : GivenTables[j] = GivenTables[i]})

\* the tables the scan leaves of a plan read, left to right
RECURSIVE ScanLeaves(_)
ScanLeaves(node) ==
    IF node.type \in {"TABLE_SCAN", "INDEX_SCAN"} THEN <<node.table>>
    ELSE IF node.type \in {"JOIN", "NESTED_LOOP", "NESTED_LOOP_JOIN", "HASH_JOIN", "MERGE_JOIN"}
    THEN ScanLeaves(node.children[1]) \o ScanLeaves(node.children[2])
    ELSE << >>

\* C30: for a FROM list of two or more entries and numeric row counts, after
\* the round of size k of the dynamic program every mask of at most k tables
\* has an entry, and the leaves of its plan are exactly the tables of the
\* mask, each once; so the full mask has an entry, from becomes one join
\* tree over every table of the query, each once, and the scan leaves of
\* the generated plan read every table of the query once.
C30_EveryMaskHasEntry ==
    /\ (pc = "joined" /\ Len(parsed.node.from) >= 2) =>
          /\ \A k \in 1..Len(GivenTables) : \A mask \in 1..FullMask :
                PopCount(mask) <= k =>
                    /\ mask \in DOMAIN DpAfter(k)
                    /\ ExactlyTheTables(extractNode(DpAfter(k)[mask].plan), mask)
          /\ FullMask \in DOMAIN dp
          /\ Len(ast.from) = 1
          /\ ExactlyTheTables(extractTables(ast.from), FullMask)
    /\ (pc = "planned" /\ dp # << >>) =>
          LET leaves == ScanLeaves(plan.children[1])
          IN  /\ Len(leaves) = Len(GivenTables)
              /\ \A i \in DOMAIN GivenTables :
                    Cardinality({k \in DOMAIN leaves : leaves[k] = GivenTables[i].name})
                       = Cardinality({j \in DOMAIN GivenTables :
                                         GivenTables[j].name = GivenTables[i].name})

=============================================================================
